---- MODULE Spec2Model ----
(***************************************************************************)
(* Model of the character animation pipeline of animeforge:                *)
(*   pipeline/character_gen.py  generate_character_animations              *)
(*   pipeline/poses.py          interpolate_poses                          *)
(*   poses/loader.py            load                                       *)
(*   pipeline/assembly.py       assemble_sprite_sheet                      *)
(*   pipeline/export.py         export_project (frame width)               *)
(*   screens/generation.py      GenerationScreen (caller, cancel button)   *)
(*   backend/comfyui.py         ComfyUIBackend, _wait_for_result           *)
(*   backend/fal_backend.py     FalBackend                                 *)
(*   backend/mock.py            MockBackend                                *)
(*   screens/export_screen.py   ExportScreen (start, run)                  *)
(*   cli.py                     generate, check (backend life cycle)       *)
(*   preview_server.py          PreviewServer (queue, broadcast loop)      *)
(*                                                                         *)
(* The orchestrator is a sequential coroutine; its only suspension point   *)
(* is `await backend.generate(request)`, modelled by the pair CallGenerate *)
(* / GenerateReturns (or GenerateRaises).  The backend, the file system    *)
(* and the user are the environment.  The backends, the wait for one job, *)
(* the two pure pipeline functions, the callers of the backends, the      *)
(* preview server and the pose loader have specifications of their own;   *)
(* every specification leaves the variables of the others at their        *)
(* initial values.                                                         *)
(***************************************************************************)
EXTENDS Integers, Sequences, FiniteSets, TLC

\* ---------------------------------------------------------------- bounds
MaxAnims == 2
MaxFrames == 2
MaxRefs == 2
MaxCalls == 3
MaxTimeout == 3
MaxImages == 2
MaxSrcFrames == 3
MaxTarget == 4
MaxCoord == 2
MaxSheetFrames == 3
MaxPadding == 1
MaxFrameSide == 2
MaxRuns == 2
MaxReads == 2
MaxOpenClients == 2

\* ------------------------------------------------------------- constants
GenWidth == 1024
AnimIds == {"idle", "typing"}
PoseNames == {"idle", "still", "ghost"}
GenerateErrors == {"TimeoutError", "HTTPError"}
None == "None"
NoResult == 0 - 1
CharacterName == "hero"
CharacterIpWeight == 60
DefaultIpWeight == 75
ControlnetStrength == 85

\* The bundled pose catalog: name -> number of keyframes in the file.
\* "ghost" has no file.
PoseCatalog == [idle |-> 2, still |-> 1]

Max(a, b) == IF a >= b THEN a ELSE b
Min(a, b) == IF a <= b THEN a ELSE b

\* ------------------------------------------------------- pure functions
\* loader.load: the file exists or FileNotFoundError is raised.
PoseFound(name) == name \in DOMAIN PoseCatalog

\* interpolate_poses: t = i / max(target-1, 1) * max(n_src-1, 1), kept as the
\* fraction SrcNum / SrcDen.
SrcNum(i, n_src) == i * Max(n_src - 1, 1)
SrcDen(target) == Max(target - 1, 1)
IdxLo(i, n_src, target) == SrcNum(i, n_src) \div SrcDen(target)
IdxHi(i, n_src, target) == Min(IdxLo(i, n_src, target) + 1, n_src - 1)

interpolate_poses(n_src, target) ==
    IF n_src = 0 \/ target <= 0
    THEN [err |-> "ValueError", frames |-> << >>]
    ELSE IF n_src = target
    THEN [err |-> None,
          frames |-> [k \in 1..n_src |->
                        [lo |-> k - 1, hi |-> k - 1, num |-> 0, den |-> 1]]]
    ELSE IF \E i \in 0..(target - 1) : IdxLo(i, n_src, target) > n_src - 1
    THEN [err |-> "IndexError", frames |-> << >>]
    ELSE [err |-> None,
          frames |-> [k \in 1..target |->
                        [lo |-> IdxLo(k - 1, n_src, target),
                         hi |-> IdxHi(k - 1, n_src, target),
                         num |-> SrcNum(k - 1, n_src) % SrcDen(target),
                         den |-> SrcDen(target)]]]

\* assemble_sprite_sheet, horizontal, padding 0: sheet_w = fw * n.
SheetWidth(fw, n) == fw * n

\* export_project: frame_w = sheet_w // max(anim.frame_count, 1).
ExportFrameWidth(sheet_w, frame_count) == sheet_w \div Max(frame_count, 1)

\* Paths.  A sheet lives under output_dir, a frame under the scratch
\* directory of the animation at position k of the request list.
SheetPath(name, id) == [dir |-> <<"output_dir">>, file |-> <<name, id>>]
FramePath(k, i) == [dir |-> <<"tmp", k>>, file |-> <<"frame", i>>]
PosePath(k, i) == [dir |-> <<"tmp", k>>, file |-> <<"pose", i>>]

\* Keyword binding of a call: Python raises TypeError for a keyword the
\* signature does not declare.
OrchestratorParams ==
    {"character", "scene", "backend", "config", "output_dir", "animations"}
ScreenCallKwargs == {"output_dir", "progress_callback"}
CallBinds(kwargs, params) == kwargs \subseteq params

VARIABLES
    caller,            \* "direct": the exported function is called as is;
                       \* "screen": GenerationScreen drives the run
    character,         \* [name, reference_images, ip_adapter_weight, animations]
    has_character,     \* proj.character is not None
    pc,                \* position of the orchestrator coroutine
    ai,                \* position in `animations` (1-based)
    idx,               \* frame index inside the animation (0-based)
    keypoints_list,    \* result of interpolate_poses
    frame_paths,       \* list[Path] of this animation
    results,           \* dict[str, Path]
    raised,            \* exception that left the orchestrator, or None
    tmpdirs,           \* scratch directories that exist on disk
    sheet_files,       \* files under output_dir: path -> image width
    inflight,          \* generate calls awaiting their result
    calls,             \* every request handed to backend.generate, with the
                       \* number of images it returned (NoResult: none yet, or raised)
    last_images,       \* len(result.images) of the last call, NoResult if it raised
    assembled,         \* every call of assemble_sprite_sheet
    cancel_event,      \* the external cancellation signal
    anim_cancel,       \* cancel_event as it was when this animation began
    running,           \* GenerationScreen._running
    s_pc,              \* position of GenerationScreen._run_generation
    backend_available,
    char_call,         \* outcome of the character phase of the screen
    connected,         \* backend variant -> connect() has been called on it
    client,            \* ComfyUIBackend._client is not None
    open_clients,      \* httpx.AsyncClient objects created and not closed
    api_key,           \* FalBackend._api_key
    output_dirs,       \* backend variants whose output_dir exists on disk
    last_call,         \* the last backend method call and what it did
    mock_dirs,         \* MockBackend instances whose output_dir exists
    mock_disk,         \* <<instance, file name>> -> image content on disk
    mock_log,          \* every generate call on a MockBackend, with its result
    w_pc,              \* position of ComfyUIBackend._wait_for_result
    now,               \* time.monotonic(), in seconds
    deadline,          \* the local `deadline`
    progress_callback, \* TRUE when the caller passed a callback
    polls,             \* GET /history requests sent
    callbacks,         \* the argument tuples the callback was called with
    job_images,        \* images of the job once a poll found it, NoResult before
    images,            \* the local list `images`, one entry per download
    w_error,           \* the exception that left the wait, None otherwise
    fn,                \* the pipeline function that is applied
    fn_done,           \* TRUE once it has been applied
    p_sequence,        \* interpolate_poses: the keypoints of sequence.frames
    p_target,          \* interpolate_poses: target_frames
    p_result,          \* what interpolate_poses returned or raised
    a_frames,          \* assemble_sprite_sheet: the frame files, in order
    a_direction,       \* assemble_sprite_sheet: direction
    a_padding,         \* assemble_sprite_sheet: padding
    a_frame_size,      \* assemble_sprite_sheet: frame_size
    a_output,          \* the file at the output path before the call
    a_result,          \* what assemble_sprite_sheet did
    r_caller,          \* who runs: screen, export, cli_generate, cli_check, preview
    r_config,          \* config.active_backend (or --backend)
    r_pc,              \* position of the run
    r_backend,         \* the instance the local `backend` is bound to
    r_opened,          \* instances whose connect has returned
    r_closed,          \* instances whose disconnect has been called
    r_failed,          \* instances whose connect raised or that were unavailable
    r_available,       \* the local `backend_available` / `available`
    r_invoked,         \* <<callee, instance>> of each pipeline or generate call
    r_running,         \* the screen's _running
    r_cancel,          \* the screen's _cancel_event is set
    r_exit,            \* how the last run ended: None, return, exception
    r_runs,            \* number of runs started
    r_status,          \* the status line
    ws_pc,             \* the generation task: idle, generate, done
    ws_step,           \* progress callbacks made by MockBackend.generate
    ws_queue,          \* PreviewServer._queue
    ws_clients,        \* PreviewServer._clients
    ws_early,          \* clients connected ever since the generation started
    ws_gone,           \* connections that were closed
    ws_received,       \* what each client has received, in order
    l_cache,           \* the lru_cache of load, least recently used first
    l_reads,           \* per name, how often its file was read and validated
    l_returned,        \* per name, the sequence objects load has returned
    l_newest,          \* the highest name asked for so far
    l_raised           \* what the last load raised

\* Groups of variables.
inputs == <<caller, character, has_character>>
orch == <<pc, ai, idx, keypoints_list, frame_paths, results, raised>>
observed == <<tmpdirs, sheet_files, inflight, calls, last_images, assembled, anim_cancel>>
screen == <<running, s_pc, backend_available, char_call>>
pipeline == <<inputs, orch, observed, cancel_event, screen>>
backends == <<connected, client, open_clients, api_key, output_dirs, last_call>>
mocks == <<mock_dirs, mock_disk, mock_log>>
waiting == <<w_pc, now, deadline, progress_callback, polls, callbacks,
            job_images, images, w_error>>
runs == <<r_caller, r_config, r_pc, r_backend, r_opened, r_closed, r_failed,
         r_available, r_invoked, r_running, r_cancel, r_exit, r_runs, r_status>>
preview == <<ws_pc, ws_step, ws_queue, ws_clients, ws_early, ws_gone, ws_received>>
loader == <<l_cache, l_reads, l_returned, l_newest, l_raised>>
functions == <<fn, fn_done, p_sequence, p_target, p_result,
              a_frames, a_direction, a_padding, a_frame_size, a_output,
              a_result>>
subsystems == <<backends, mocks, waiting, functions, runs, preview, loader>>
vars == <<pipeline, subsystems>>

\* ------------------------------------------------------- backend data
Variants == {"comfyui", "fal", "mock"}
Prompts == {"hello", "same prompt"}
Seeds == {0 - 1, 0, 42}
Widths == {64, 128}
MockHeight == 64
NoSeed == 0 - 2

\* FalSettings: the three configured endpoints.
FalDefaultModel == "fal-ai/pony-v7"
FalControlnetModel == "fal-ai/sdxl-controlnet-union"
FalIpAdapterModel == "fal-ai/ip-adapter-face-id"

\* The seed a cloud job draws when the request carries none.
ServiceSeed == 7

\* GenerationRequest: a conditioning field is TRUE when it is set (a path
\* or a non-empty model id) and FALSE when it is None.
Requests ==
    [prompt : Prompts, seed : Seeds, width : Widths, height : {MockHeight},
     controlnet_image : BOOLEAN, controlnet_model : BOOLEAN,
     ip_adapter_image : BOOLEAN]

\* The requests the three variants are compared on: they differ in seed
\* and conditioning.
BackendRequests == {r \in Requests : r.prompt = "hello" /\ r.width = 64}

NoRequest ==
    [prompt |-> None, seed |-> NoSeed, width |-> 0, height |-> 0,
     controlnet_image |-> FALSE, controlnet_model |-> FALSE,
     ip_adapter_image |-> FALSE]

\* One method call on a backend: the error it raised (None: it returned),
\* what the probe of is_available met and the value it returned ("True" /
\* "False"), the network requests the call sent and the
\* files it wrote, in order, and for generate the seed of the
\* GenerationResult, the seed the generation ran with, and the endpoint
\* and parameter names of the cloud call.
NoCall ==
    [variant |-> None, op |-> "none", request |-> NoRequest, error |-> None,
     probe |-> None, returned |-> None, network |-> << >>, files |-> << >>,
     seed |-> NoSeed, used_seed |-> NoSeed, endpoint |-> None,
     params |-> {}, was_connected |-> FALSE]

\* The exception classes of the probes and their base classes (httpx).
ExcParent ==
    [ConnectError |-> "NetworkError", ReadError |-> "NetworkError",
     NetworkError |-> "TransportError",
     ConnectTimeout |-> "TimeoutException", ReadTimeout |-> "TimeoutException",
     TimeoutException |-> "TransportError",
     RemoteProtocolError |-> "ProtocolError", ProtocolError |-> "TransportError",
     TransportError |-> "RequestError", RequestError |-> "HTTPError",
     HTTPError |-> "Exception", OSError |-> "Exception",
     RuntimeError |-> "Exception"]

RECURSIVE IsInstance(_, _)
IsInstance(exc, cls) ==
    \/ exc = cls
    \/ exc \in DOMAIN ExcParent /\ IsInstance(ExcParent[exc], cls)

\* `except (A, B):` catches exc.
Caught(exc, classes) == \E c \in classes : IsInstance(exc, c)

\* What the reachability probe can meet: a response with a status code,
\* or a transport failure.
ProbeStatuses == {"200", "401", "500"}
ProbeFailures ==
    {"ConnectError", "ConnectTimeout", "ReadTimeout", "ReadError",
     "RemoteProtocolError"}

ComfyUICaught == {"ConnectError", "TimeoutException"}
FalCaught == {"HTTPError", "OSError"}

\* ComfyUIBackend._add_controlnet: three nodes after the last id, and the
\* sampler rewired to the outputs of the apply node.
add_controlnet(workflow, pos_id, neg_id, sampler_id, node_id) ==
    LET cn_load_id == node_id + 1
        cn_img_id == node_id + 2
        cn_apply_id == node_id + 3
        rewired == [k \in DOMAIN workflow |->
                      IF workflow[k].id = sampler_id
                      THEN [workflow[k] EXCEPT
                               !.inputs = (@ \ {<<"positive", pos_id, 0>>,
                                                <<"negative", neg_id, 0>>})
                                          \cup {<<"positive", cn_apply_id, 0>>,
                                                <<"negative", cn_apply_id, 1>>}]
                      ELSE workflow[k]]
    IN  rewired \o
        <<[id |-> cn_load_id, class_type |-> "ControlNetLoader", inputs |-> {}],
          [id |-> cn_img_id, class_type |-> "LoadImage", inputs |-> {}],
          [id |-> cn_apply_id, class_type |-> "ControlNetApplyAdvanced",
           inputs |-> {<<"positive", pos_id, 0>>, <<"negative", neg_id, 0>>,
                       <<"control_net", cn_load_id, 0>>, <<"image", cn_img_id, 0>>}]>>

\* ComfyUIBackend._build_workflow: the assignments `workflow[id] = node`
\* in order; `inputs` holds the references <<input, node id, output>>.
\* Nothing in it reads request.ip_adapter_image.
build_workflow(request, init_image) ==
    LET ckpt_id == 1
        pos_id == 2
        neg_id == 3
        latent_id == IF init_image THEN 5 ELSE 4
        sampler_id == latent_id + 1
        decode_id == sampler_id + 1
        save_id == decode_id + 1
        latent == IF init_image
                  THEN <<[id |-> 4, class_type |-> "LoadImage", inputs |-> {}],
                         [id |-> 5, class_type |-> "VAEEncode",
                          inputs |-> {<<"pixels", 4, 0>>, <<"vae", ckpt_id, 2>>}]>>
                  ELSE <<[id |-> 4, class_type |-> "EmptyLatentImage", inputs |-> {}]>>
        base ==
            <<[id |-> ckpt_id, class_type |-> "CheckpointLoaderSimple", inputs |-> {}],
              [id |-> pos_id, class_type |-> "CLIPTextEncode",
               inputs |-> {<<"clip", ckpt_id, 1>>}],
              [id |-> neg_id, class_type |-> "CLIPTextEncode",
               inputs |-> {<<"clip", ckpt_id, 1>>}]>>
            \o latent \o
            <<[id |-> sampler_id, class_type |-> "KSampler",
               inputs |-> {<<"model", ckpt_id, 0>>, <<"positive", pos_id, 0>>,
                           <<"negative", neg_id, 0>>, <<"latent_image", latent_id, 0>>}],
              [id |-> decode_id, class_type |-> "VAEDecode",
               inputs |-> {<<"samples", sampler_id, 0>>, <<"vae", ckpt_id, 2>>}],
              [id |-> save_id, class_type |-> "SaveImage",
               inputs |-> {<<"images", decode_id, 0>>}]>>
    IN  IF request.controlnet_image /\ request.controlnet_model
        THEN add_controlnet(base, pos_id, neg_id, sampler_id, save_id)
        ELSE base

\* ComfyUIBackend._build_workflow, KSampler input "seed".
WorkflowSeed(request) == IF request.seed >= 0 THEN request.seed ELSE 0

\* ComfyUIBackend.generate: GenerationResult(seed=request.seed).
ComfyUIResultSeed(request) == request.seed

\* mock._prompt_seed: int(md5(prompt).hexdigest()[:8], 16).
PromptSeedTable == ("hello" :> 1564557354) @@ ("same prompt" :> 745500096)

prompt_seed_counted(prompt) == PromptSeedTable[prompt] + Len(mock_log)

prompt_seed(prompt) == PromptSeedTable[prompt]

\* MockBackend.generate: seed = request.seed if request.seed >= 0 else ...
MockSeed(request) ==
    IF request.seed >= 0 THEN request.seed ELSE prompt_seed(request.prompt)

\* f"mock_{seed}_{request.width}x{request.height}.png"
MockFile(seed, width, height) == <<"mock", seed, width, height>>

\* mock._create_gradient_image: the two gradient colours come from the
\* seed, the rows from the height, the two text lines from the prompt
\* (its first 80 characters; every prompt of Prompts is shorter), the
\* seed and the size.
create_gradient_image(width, height, prompt, seed) ==
    LET r1 == (seed \div 65536) % 256
        g1 == (seed \div 256) % 256
        b1 == seed % 256
    IN  [size |-> <<width, height>>,
         top |-> <<r1, g1, b1>>,
         bottom |-> <<255 - r1, 255 - g1, 255 - b1>>,
         label |-> <<"[MOCK]", prompt>>,
         info |-> <<seed, width, height>>]

\* FalBackend._select_endpoint
select_endpoint(request) ==
    IF request.controlnet_image /\ request.controlnet_model
    THEN FalControlnetModel
    ELSE IF request.ip_adapter_image
    THEN FalIpAdapterModel
    ELSE FalDefaultModel

\* FalBackend._build_params: the names of the parameters sent.
build_params(request) ==
    {"prompt", "image_size", "num_inference_steps", "guidance_scale", "num_images"}
    \cup (IF request.seed >= 0 THEN {"seed"} ELSE {})
    \cup (IF request.controlnet_image
          THEN {"control_image", "controlnet_conditioning_scale"} ELSE {})
    \cup (IF request.ip_adapter_image
          THEN {"face_image", "ip_adapter_scale"} ELSE {})

\* FalBackend._prepare_image_url: one upload per conditioning image, in
\* the order _build_params meets them.
Uploads(request) ==
    (IF request.controlnet_image THEN <<"upload controlnet_image">> ELSE << >>)
    \o (IF request.ip_adapter_image THEN <<"upload ip_adapter_image">> ELSE << >>)

\* output_dir.mkdir(parents=True, exist_ok=True)
MkDir == <<"mkdir">>

\* No backend object has been used yet.
BackendsIdle ==
    /\ connected = [v \in Variants |-> FALSE]
    /\ client = FALSE
    /\ open_clients = 0
    /\ api_key = ""
    /\ output_dirs = {}
    /\ last_call = NoCall

\* Two MockBackend objects, each with an output_dir of its own.
MockInstances == {"mock_a", "mock_b"}

\* The requests the mock is compared on: they differ in prompt, seed and
\* width, and carry no conditioning (the mock reads none).
MockRequests ==
    {r \in Requests : /\ r.seed \in {0 - 1, 42}
                      /\ ~r.controlnet_image
                      /\ ~r.controlnet_model
                      /\ ~r.ip_adapter_image}

MocksIdle ==
    /\ mock_dirs = {}
    /\ mock_disk = << >>
    /\ mock_log = << >>

\* asyncio.sleep(1.0): the pause between two polls, in seconds.
PollInterval == 1

\* Seconds one GET can take, and seconds a sleep can overrun.
Delays == 0..1

\* progress_callback(0, 0, "Generating...")
GeneratingStatus == <<0, 0, "Generating...">>

WaitingIdle ==
    /\ w_pc = "idle"
    /\ now = 0
    /\ deadline = 0
    /\ progress_callback = FALSE
    /\ polls = 0
    /\ callbacks = << >>
    /\ job_images = NoResult
    /\ images = << >>
    /\ w_error = None

\* ------------------------------------------- pipeline functions: data
\* A keypoint set stands for its coordinates; one coordinate is kept, as
\* the fraction num / den (every coordinate is interpolated by the same
\* _lerp).
Coords == 0..MaxCoord
Kp(a) == [num |-> a, den |-> 1]

\* _lerp with t = num / den: a + (b - a) * t.
lerp(a, b, num, den) == [num |-> a * den + (b - a) * num, den |-> den]

\* Two keypoint sets hold the same coordinates.
SameKeypoints(x, y) == x.num * y.den = y.num * x.den

SourceKeypointsReversed(src_frames) ==
    [k \in DOMAIN src_frames |-> Kp(src_frames[Len(src_frames) + 1 - k])]

\* `return [f.keypoints for f in src_frames]`
SourceKeypoints(src_frames) == [k \in DOMAIN src_frames |-> Kp(src_frames[k])]

\* interpolate_poses on the keypoints: the source indices it reads and the
\* keypoint sets it returns.  It does no I/O.
InterpolatedKeypoints(src_frames, target) ==
    LET r == interpolate_poses(Len(src_frames), target) IN
    [err |-> r.err,
     indices |-> r.frames,
     keypoints |->
        IF r.err # None THEN << >>
        ELSE IF Len(src_frames) = target THEN SourceKeypoints(src_frames)
        ELSE [k \in DOMAIN r.frames |->
                lerp(src_frames[r.frames[k].lo + 1], src_frames[r.frames[k].hi + 1],
                     r.frames[k].num, r.frames[k].den)],
     io |-> << >>]

NoPoseResult == [err |-> "pending", indices |-> << >>, keypoints |-> << >>, io |-> << >>]

\* A frame file as Image.open meets it.
FrameFiles == {"ok", "missing", "empty", "corrupt"}

\* What Image.open(path).convert raises on such a file, and what the
\* message of that exception names; nothing in the loop catches it.
OpenError ==
    [missing |-> [type |-> "FileNotFoundError", message |-> {"path"}],
     empty |-> [type |-> "UnidentifiedImageError", message |-> {"path"}],
     corrupt |-> [type |-> "UnidentifiedImageError", message |-> {"path"}]]

FrameSizes == (1..MaxFrameSide) \X (1..MaxFrameSide)
OutputFiles == {"absent", "old"}
Transparent == 0
Directions == {"horizontal", "vertical"}

RejectsNothing(frame_list) == FALSE

\* `if not frames: raise ValueError`
RejectsEmpty(frame_list) == frame_list = << >>

\* The first frame Image.open fails on, 0 when there is none.
FirstUnreadable(frame_list) ==
    IF \A k \in DOMAIN frame_list : frame_list[k] = "ok" THEN 0
    ELSE CHOOSE k \in DOMAIN frame_list :
            /\ frame_list[k] # "ok"
            /\ \A j \in 1..(k - 1) : frame_list[j] = "ok"

\* Image.new("RGBA", (sheet_w, sheet_h), (0, 0, 0, 0)): every pixel of the
\* canvas is fully transparent.
NewSheet(sheet_w, sheet_h) ==
    [px \in (0..(sheet_w - 1)) \X (0..(sheet_h - 1)) |-> Transparent]

PasteOffsetUnpadded(k, extent, padding) == k * extent

\* `idx * (fw + padding)`, `idx * (fh + padding)`
PasteOffset(k, extent, padding) == k * (extent + padding)

\* sheet.paste(img, (x, y), img) of frame k, resized to (fw, fh): the
\* pixels of the box that lie on the canvas now show frame k.
Paste(sheet, k, x, y, fw, fh) ==
    [px \in DOMAIN sheet |->
        IF /\ px[1] \in x..(x + fw - 1)
           /\ px[2] \in y..(y + fh - 1)
        THEN k ELSE sheet[px]]

\* assemble_sprite_sheet: the error it raises (None: it returns) and what
\* its message names, its file operations in order, the canvas size, the
\* paste offset of each frame, the canvas and the file at the output path.
assemble_sprite_sheet(frame_list, output, frame_size, direction, padding) ==
    LET fw == frame_size[1]
        fh == frame_size[2]
        n == Len(frame_list)
        sheet_w == IF direction = "horizontal"
                   THEN fw * n + padding * Max(n - 1, 0) ELSE fw
        sheet_h == IF direction = "horizontal"
                   THEN fh ELSE fh * n + padding * Max(n - 1, 0)
        bad == FirstUnreadable(frame_list)
        offset(k) == IF direction = "horizontal"
                     THEN <<PasteOffset(k - 1, fw, padding), 0>>
                     ELSE <<0, PasteOffset(k - 1, fh, padding)>>
        pasted[k \in 0..n] ==
            IF k = 0 THEN NewSheet(sheet_w, sheet_h)
            ELSE Paste(pasted[k - 1], k, offset(k)[1], offset(k)[2], fw, fh)
    IN  IF RejectsEmpty(frame_list)
        THEN [err |-> "ValueError", message |-> {}, io |-> << >>,
              size |-> <<0, 0>>, offsets |-> << >>, sheet |-> << >>,
              output |-> output]
        ELSE IF bad # 0
        THEN [err |-> OpenError[frame_list[bad]].type,
              message |-> OpenError[frame_list[bad]].message,
              io |-> [k \in 1..bad |-> <<"open", k>>],
              size |-> <<sheet_w, sheet_h>>,
              offsets |-> [k \in 1..(bad - 1) |-> offset(k)],
              sheet |-> pasted[bad - 1],
              output |-> output]
        ELSE [err |-> None, message |-> {},
              io |-> [k \in 1..n |-> <<"open", k>>] \o <<<<"mkdir", 0>>, <<"save", 0>>>>,
              size |-> <<sheet_w, sheet_h>>,
              offsets |-> [k \in 1..n |-> offset(k)],
              sheet |-> pasted[n],
              output |-> "sheet"]

NoSheetResult ==
    [err |-> "pending", message |-> {}, io |-> << >>, size |-> <<0, 0>>,
     offsets |-> << >>, sheet |-> << >>, output |-> "absent"]

\* No pipeline function is under test.
FunctionsIdle ==
    /\ fn = None
    /\ fn_done = FALSE
    /\ p_sequence = << >>
    /\ p_target = 0
    /\ p_result = NoPoseResult
    /\ a_frames = << >>
    /\ a_direction = "horizontal"
    /\ a_padding = 0
    /\ a_frame_size = <<1, 1>>
    /\ a_output = "absent"
    /\ a_result = NoSheetResult

\* Nobody runs a generation or an export.
RunsIdle ==
    /\ r_caller = None
    /\ r_config = "mock"
    /\ r_pc = "idle"
    /\ r_backend = <<0, None>>
    /\ r_opened = {}
    /\ r_closed = {}
    /\ r_failed = {}
    /\ r_available = FALSE
    /\ r_invoked = << >>
    /\ r_running = FALSE
    /\ r_cancel = FALSE
    /\ r_exit = None
    /\ r_runs = 0
    /\ r_status = "ready"

\* MockBackend.generate: total_steps; the WebSocket connections.
TotalSteps == 10
WsClients == {"first", "second"}

\* The preview server as constructed.
PreviewIdle ==
    /\ ws_pc = "idle"
    /\ ws_step = 0
    /\ ws_queue = << >>
    /\ ws_clients = {}
    /\ ws_early = {}
    /\ ws_gone = {}
    /\ ws_received = [c \in WsClients |-> << >>]

\* lru_cache(maxsize=32). Name 0 has no file; the names from 1 on have
\* one, and there is one name more than the cache holds.
lru_maxsize == 32
MissingName == 0
PoseFileNames == 1..(lru_maxsize + 1)

\* The loader before its first call.
LoaderIdle ==
    /\ l_cache = << >>
    /\ l_reads = [n \in PoseFileNames |-> 0]
    /\ l_returned = [n \in PoseFileNames |-> {}]
    /\ l_newest = 0
    /\ l_raised = None

SubsystemsIdle ==
    /\ BackendsIdle /\ MocksIdle /\ WaitingIdle /\ FunctionsIdle
    /\ RunsIdle /\ PreviewIdle /\ LoaderIdle

\* --------------------------------------------------------------- inputs
AnimationDefs ==
    [id : AnimIds, pose_sequence : PoseNames, frame_count : 1..MaxFrames,
     sprite_sheet : {None}]

SeqsUpTo(S, n) == UNION {[1..m -> S] : m \in 0..n}

\* Characters whose reference_images list has at most n entries; an entry
\* is TRUE when the file exists on disk.
Characters(n) ==
    [name : {CharacterName},
     reference_images : SeqsUpTo(BOOLEAN, n),
     ip_adapter_weight : {CharacterIpWeight},
     animations : SeqsUpTo(AnimationDefs, MaxAnims) \ {<< >>}]

\* The character of the specifications in which the orchestrator is not
\* called.
IdleCharacter ==
    [name |-> CharacterName, reference_images |-> << >>,
     ip_adapter_weight |-> CharacterIpWeight,
     animations |-> <<[id |-> "idle", pose_sequence |-> "idle",
                       frame_count |-> 1, sprite_sheet |-> None]>>]

animations == character.animations
Anim == animations[ai]

\* The pipeline before the first call, for a caller and a set of characters.
PipelineInit(callers, chars) ==
    /\ caller \in callers
    /\ character \in chars
    /\ has_character \in (IF caller = "screen" THEN BOOLEAN ELSE {TRUE})
    /\ pc = "idle"
    /\ ai = 1
    /\ idx = 0
    /\ keypoints_list = << >>
    /\ frame_paths = << >>
    /\ results = << >>
    /\ raised = None
    /\ tmpdirs = {}
    /\ sheet_files = << >>
    /\ inflight = {}
    /\ calls = << >>
    /\ last_images = NoResult
    /\ assembled = << >>
    /\ cancel_event = FALSE
    /\ anim_cancel = FALSE
    /\ running = FALSE
    /\ s_pc = "ready"
    /\ backend_available = FALSE
    /\ char_call = None

\* The state before the first call: nothing else has been used.
InitWith(callers, chars) == PipelineInit(callers, chars) /\ SubsystemsIdle

\* The exported function called on a character without reference images.
Init == InitWith({"direct"}, Characters(0))

\* The exported function called on a character with reference images.
InitRefs == InitWith({"direct"}, Characters(MaxRefs))

\* The generation screen with a loaded project.
InitScreen == InitWith({"screen"}, Characters(0))

\* ------------------------------------------------- orchestrator helpers
NextFrameSkips(i) == i + 2

\* enumerate(keypoints_list): the index after i.
NextFrame(i) == i + 1

AfterNotFoundBreak(k) == Len(character.animations) + 1

\* `continue` after FileNotFoundError: the loop goes on with the next
\* animation of the list.
AfterNotFound(k) == k + 1

\* frame_paths.append(frame_dest)
AppendFrame(paths, p) == Append(paths, p)

AfterResultStrict(n) == IF n = 0 THEN "raised" ELSE "frame"

\* `if result.images:` / `else: logger.warning(...)`: the position the
\* coroutine continues at after a result with n images.
AfterResult(n) == "frame"

HasFramesAlways(paths) == TRUE

\* `if frame_paths:` guards the assembly.
HasFrames(paths) == paths # << >>

CleanupTmpLeaks(dirs, d) == dirs

\* TemporaryDirectory.__exit__: the scratch directory is removed when the
\* with-block is left, normally or by an exception.
CleanupTmp(dirs, d) == dirs \ {d}

\* `if character.reference_images:` then `reference_images[0].exists()`.
AttachIpAdapter(refs) == refs # << >> /\ refs[1]

\* GenerationRequest(...) of frame i of the animation at position k.
BuildRequest(k, i) ==
    LET attach == AttachIpAdapter(character.reference_images) IN
    [anim |-> k,
     frame |-> i,
     controlnet_image |-> PosePath(k, i),
     controlnet_strength |-> ControlnetStrength,
     ip_adapter_image |-> IF attach THEN "reference_images[0]" ELSE None,
     ip_adapter_model |-> IF attach THEN "config.models.ip_adapter" ELSE None,
     ip_adapter_weight |-> IF attach THEN character.ip_adapter_weight
                                     ELSE DefaultIpWeight,
     anim_cancel |-> anim_cancel,
     images |-> NoResult]

\* results[anim.id] = sheet_path
RecordResult(res, id, path) == (id :> path) @@ res

\* The caller's loop `if anim.id in char_results: anim.sprite_sheet = ...`.
WireSheets(anims, res) ==
    [k \in DOMAIN anims |->
        IF anims[k].id \in DOMAIN res
        THEN [anims[k] EXCEPT !.sprite_sheet = res[anims[k].id]]
        ELSE anims[k]]

\* An exception leaves the orchestrator.  Called from the screen it is
\* caught by `except Exception` of the character phase.
Raise(exc) ==
    /\ pc' = "raised"
    /\ raised' = exc
    /\ IF caller = "screen"
       THEN /\ s_pc' = "phase4"
            /\ char_call' = exc
            /\ UNCHANGED <<running, backend_available>>
       ELSE UNCHANGED screen

\* The body of the function up to the first loop iteration.
EnterOrchestrator ==
    /\ pc' = "loop"
    /\ ai' = 1
    /\ idx' = 0
    /\ keypoints_list' = << >>
    /\ frame_paths' = << >>
    /\ results' = << >>
    /\ raised' = None

Active == pc \in {"loop", "frame", "await"}

\* ------------------------------------------------ orchestrator actions
\* A caller other than the screen calls the exported function.
DirectCall ==
    /\ caller = "direct"
    /\ pc = "idle"
    /\ EnterOrchestrator
    /\ UNCHANGED <<inputs, observed, cancel_event, screen>>
    /\ UNCHANGED subsystems

\* load_pose_sequence raises FileNotFoundError: warning, continue.
SkipMissingPose ==
    /\ pc = "loop"
    /\ ai <= Len(animations)
    /\ ~PoseFound(Anim.pose_sequence)
    /\ ai' = AfterNotFound(ai)
    /\ UNCHANGED <<pc, idx, keypoints_list, frame_paths, results, raised>>
    /\ UNCHANGED <<inputs, observed, cancel_event, screen>>
    /\ UNCHANGED subsystems

\* interpolate_poses raises: nothing catches it.
InterpolateRaises ==
    /\ pc = "loop"
    /\ ai <= Len(animations)
    /\ PoseFound(Anim.pose_sequence)
    /\ LET r == interpolate_poses(PoseCatalog[Anim.pose_sequence], Anim.frame_count) IN
        /\ r.err # None
        /\ Raise(r.err)
    /\ UNCHANGED <<ai, idx, keypoints_list, frame_paths, results>>
    /\ UNCHANGED <<inputs, observed, cancel_event>>
    /\ UNCHANGED subsystems

\* Pose loaded and interpolated, prompt built, scratch directory created.
BeginAnimation ==
    /\ pc = "loop"
    /\ ai <= Len(animations)
    /\ PoseFound(Anim.pose_sequence)
    /\ LET r == interpolate_poses(PoseCatalog[Anim.pose_sequence], Anim.frame_count) IN
        /\ r.err = None
        /\ keypoints_list' = r.frames
    /\ frame_paths' = << >>
    /\ idx' = 0
    /\ tmpdirs' = tmpdirs \cup {ai}
    /\ anim_cancel' = cancel_event
    /\ pc' = "frame"
    /\ UNCHANGED <<ai, results, raised>>
    /\ UNCHANGED <<inputs, sheet_files, inflight, calls, last_images, assembled>>
    /\ UNCHANGED <<cancel_event, screen>>
    /\ UNCHANGED subsystems

\* render_pose_image fails on the file system.
RenderRaises ==
    /\ pc = "frame"
    /\ idx < Len(keypoints_list)
    /\ tmpdirs' = CleanupTmp(tmpdirs, ai)
    /\ Raise("OSError")
    /\ UNCHANGED <<ai, idx, keypoints_list, frame_paths, results>>
    /\ UNCHANGED <<inputs, sheet_files, inflight, calls, last_images, assembled, anim_cancel>>
    /\ UNCHANGED cancel_event
    /\ UNCHANGED subsystems

\* Guide image rendered, request built, backend.generate called.
CallGenerate ==
    /\ pc = "frame"
    /\ idx < Len(keypoints_list)
    /\ LET request == BuildRequest(ai, idx) IN
        /\ calls' = Append(calls, request)
        /\ inflight' = inflight \cup {request}
    /\ last_images' = NoResult
    /\ pc' = "await"
    /\ UNCHANGED <<ai, idx, keypoints_list, frame_paths, results, raised>>
    /\ UNCHANGED <<inputs, tmpdirs, sheet_files, assembled, anim_cancel>>
    /\ UNCHANGED <<cancel_event, screen>>
    /\ UNCHANGED subsystems

\* backend.generate returns a result with n images; the first one is
\* copied into the scratch directory.
GenerateReturns ==
    /\ pc = "await"
    /\ \E n \in 0..1 :
        /\ last_images' = n
        /\ calls' = [calls EXCEPT ![Len(calls)].images = n]
        /\ frame_paths' = IF n > 0 THEN AppendFrame(frame_paths, FramePath(ai, idx))
                                   ELSE frame_paths
        /\ pc' = AfterResult(n)
    /\ inflight' = {}
    /\ idx' = NextFrame(idx)
    /\ raised' = IF pc' = "raised" THEN "RuntimeError" ELSE raised
    /\ tmpdirs' = IF pc' = "raised" THEN CleanupTmp(tmpdirs, ai) ELSE tmpdirs
    /\ UNCHANGED <<ai, keypoints_list, results>>
    /\ UNCHANGED <<inputs, sheet_files, assembled, anim_cancel>>
    /\ UNCHANGED <<cancel_event, screen>>
    /\ UNCHANGED subsystems

\* shutil.copy2 of the first image fails.
CopyRaises ==
    /\ pc = "await"
    /\ last_images' = 1
    /\ calls' = [calls EXCEPT ![Len(calls)].images = 1]
    /\ inflight' = {}
    /\ tmpdirs' = CleanupTmp(tmpdirs, ai)
    /\ Raise("OSError")
    /\ UNCHANGED <<ai, idx, keypoints_list, frame_paths, results>>
    /\ UNCHANGED <<inputs, sheet_files, assembled, anim_cancel>>
    /\ UNCHANGED cancel_event
    /\ UNCHANGED subsystems

\* backend.generate raises (poll deadline exceeded, transport error).
GenerateRaises ==
    /\ pc = "await"
    /\ inflight' = {}
    /\ tmpdirs' = CleanupTmp(tmpdirs, ai)
    /\ \E exc \in GenerateErrors : Raise(exc)
    /\ UNCHANGED <<ai, idx, keypoints_list, frame_paths, results>>
    /\ UNCHANGED <<inputs, sheet_files, calls, last_images, assembled, anim_cancel>>
    /\ UNCHANGED cancel_event
    /\ UNCHANGED subsystems

\* All frames done, at least one succeeded: sheet assembled and recorded.
AssembleSheet ==
    /\ pc = "frame"
    /\ idx >= Len(keypoints_list)
    /\ HasFrames(frame_paths)
    /\ LET sheet_path == SheetPath(character.name, Anim.id) IN
        /\ assembled' = Append(assembled,
                               [anim |-> ai, frames |-> frame_paths, output |-> sheet_path,
                                width |-> SheetWidth(GenWidth, Len(frame_paths))])
        /\ sheet_files' = (sheet_path :> SheetWidth(GenWidth, Len(frame_paths))) @@ sheet_files
        /\ results' = RecordResult(results, Anim.id, sheet_path)
    /\ tmpdirs' = CleanupTmp(tmpdirs, ai)
    /\ ai' = ai + 1
    /\ pc' = "loop"
    /\ UNCHANGED <<idx, keypoints_list, frame_paths, raised>>
    /\ UNCHANGED <<inputs, inflight, calls, last_images, anim_cancel>>
    /\ UNCHANGED <<cancel_event, screen>>
    /\ UNCHANGED subsystems

\* assemble_sprite_sheet raises on an unreadable frame, before it writes.
AssembleRaises ==
    /\ pc = "frame"
    /\ idx >= Len(keypoints_list)
    /\ HasFrames(frame_paths)
    /\ assembled' = Append(assembled,
                           [anim |-> ai, frames |-> frame_paths,
                            output |-> SheetPath(character.name, Anim.id),
                            width |-> 0])
    /\ tmpdirs' = CleanupTmp(tmpdirs, ai)
    /\ Raise("OSError")
    /\ UNCHANGED <<ai, idx, keypoints_list, frame_paths, results>>
    /\ UNCHANGED <<inputs, sheet_files, inflight, calls, last_images, anim_cancel>>
    /\ UNCHANGED cancel_event
    /\ UNCHANGED subsystems

\* All frames done, none succeeded: no sheet, no entry.
SkipEmptyAnimation ==
    /\ pc = "frame"
    /\ idx >= Len(keypoints_list)
    /\ ~HasFrames(frame_paths)
    /\ tmpdirs' = CleanupTmp(tmpdirs, ai)
    /\ ai' = ai + 1
    /\ pc' = "loop"
    /\ UNCHANGED <<idx, keypoints_list, frame_paths, results, raised>>
    /\ UNCHANGED <<inputs, sheet_files, inflight, calls, last_images, assembled, anim_cancel>>
    /\ UNCHANGED <<cancel_event, screen>>
    /\ UNCHANGED subsystems

\* `return results`; the screen then wires the paths onto the model.
Return ==
    /\ pc = "loop"
    /\ ai > Len(animations)
    /\ pc' = "returned"
    /\ IF caller = "screen"
       THEN /\ character' = [character EXCEPT !.animations = WireSheets(animations, results)]
            /\ char_call' = "returned"
            /\ s_pc' = "phase4"
            /\ UNCHANGED <<caller, has_character, running, backend_available>>
       ELSE UNCHANGED <<inputs, screen>>
    /\ UNCHANGED <<ai, idx, keypoints_list, frame_paths, results, raised>>
    /\ UNCHANGED <<observed, cancel_event>>
    /\ UNCHANGED subsystems

\* The direct caller's cancellation signal is set while the orchestrator
\* runs.  The signature has no parameter through which it could be read.
ExternalCancel ==
    /\ caller = "direct"
    /\ Active
    /\ ~cancel_event
    /\ cancel_event' = TRUE
    /\ UNCHANGED <<inputs, orch, observed, screen>>
    /\ UNCHANGED subsystems

\* ------------------------------------------------------ screen actions
action_start_generation ==
    /\ caller = "screen"
    /\ ~running
    /\ s_pc = "ready"
    /\ running' = TRUE
    /\ cancel_event' = FALSE
    /\ s_pc' = "setup"
    /\ char_call' = None
    /\ UNCHANGED <<inputs, orch, observed, backend_available>>
    /\ UNCHANGED subsystems

action_cancel_generation ==
    /\ caller = "screen"
    /\ running
    /\ ~cancel_event
    /\ cancel_event' = TRUE
    /\ UNCHANGED <<inputs, orch, observed, screen>>
    /\ UNCHANGED subsystems

Cancelled == cancel_event

\* connect / is_available of the configured backend; MockBackend as the
\* fallback makes backend_available true in either case.
ScreenSetup ==
    /\ s_pc = "setup"
    /\ backend_available' = TRUE
    /\ s_pc' = "phase1"
    /\ UNCHANGED <<inputs, orch, observed, cancel_event, running, char_call>>
    /\ UNCHANGED subsystems

\* Phase 1: background layers.
Phase1Background ==
    /\ s_pc = "phase1"
    /\ s_pc' = IF Cancelled THEN "finally" ELSE "phase2"
    /\ UNCHANGED <<inputs, orch, observed, cancel_event, running, backend_available, char_call>>
    /\ UNCHANGED subsystems

\* Phase 2: character sprites.
Phase2Character ==
    /\ s_pc = "phase2"
    /\ IF Cancelled
       THEN /\ s_pc' = "finally"
            /\ UNCHANGED <<orch, char_call>>
       ELSE IF backend_available /\ has_character
       THEN IF CallBinds(ScreenCallKwargs, OrchestratorParams)
            THEN /\ EnterOrchestrator
                 /\ s_pc' = "await_char"
                 /\ UNCHANGED char_call
            ELSE /\ char_call' = "TypeError"
                 /\ s_pc' = "phase4"
                 /\ UNCHANGED orch
       ELSE /\ char_call' = "skipped"
            /\ s_pc' = "phase4"
            /\ UNCHANGED orch
    /\ UNCHANGED <<inputs, observed, cancel_event, running, backend_available>>
    /\ UNCHANGED subsystems

\* Phases 3 to 6: effects and the placeholders.
Phase4Effects ==
    /\ s_pc = "phase4"
    /\ s_pc' = "finally"
    /\ UNCHANGED <<inputs, orch, observed, cancel_event, running, backend_available, char_call>>
    /\ UNCHANGED subsystems

\* finally: disconnect, save, _running = False.
ScreenFinally ==
    /\ s_pc = "finally"
    /\ running' = FALSE
    /\ s_pc' = "ready"
    /\ UNCHANGED <<inputs, orch, observed, cancel_event, backend_available, char_call>>
    /\ UNCHANGED subsystems

\* The orchestrator called directly.
Next ==
    \/ DirectCall
    \/ SkipMissingPose
    \/ InterpolateRaises
    \/ BeginAnimation
    \/ RenderRaises
    \/ CallGenerate
    \/ GenerateReturns
    \/ CopyRaises
    \/ GenerateRaises
    \/ AssembleSheet
    \/ AssembleRaises
    \/ SkipEmptyAnimation
    \/ Return

Spec == Init /\ [][Next]_vars

SpecRefs == InitRefs /\ [][Next]_vars

\* The orchestrator called directly by a caller that holds a cancellation
\* signal.
NextCancel ==
    \/ DirectCall
    \/ SkipMissingPose
    \/ InterpolateRaises
    \/ BeginAnimation
    \/ RenderRaises
    \/ CallGenerate
    \/ GenerateReturns
    \/ CopyRaises
    \/ GenerateRaises
    \/ AssembleSheet
    \/ AssembleRaises
    \/ SkipEmptyAnimation
    \/ Return
    \/ ExternalCancel

SpecCancel == Init /\ [][NextCancel]_vars

\* The generation screen.  Its call of the orchestrator does not bind
\* (Phase2Character), so no step of the orchestrator is taken here.
NextScreen ==
    \/ action_start_generation
    \/ action_cancel_generation
    \/ ScreenSetup
    \/ Phase1Background
    \/ Phase2Character
    \/ Phase4Effects
    \/ ScreenFinally

SpecScreen == InitScreen /\ [][NextScreen]_vars

\* -------------------------------------------------------------- backends
\* The three backend classes, one instance of each, called in any order
\* by a caller; the services they talk to are the environment.
CallOf(variant, op) ==
    [NoCall EXCEPT !.variant = variant, !.op = op,
                   !.was_connected = connected[variant]]

MarkConnected(variant) == [connected EXCEPT ![variant] = TRUE]

\* ComfyUIBackend.connect: a new httpx.AsyncClient is assigned to
\* self._client; a client already there is not closed.
ComfyUI_connect ==
    /\ open_clients < MaxOpenClients
    /\ client' = TRUE
    /\ open_clients' = open_clients + 1
    /\ connected' = MarkConnected("comfyui")
    /\ last_call' = CallOf("comfyui", "connect")
    /\ UNCHANGED <<api_key, output_dirs, pipeline, mocks, waiting, functions, runs, preview, loader>>

\* ComfyUIBackend.disconnect: `if self._client:` close it and forget it.
ComfyUI_disconnect ==
    /\ client' = FALSE
    /\ open_clients' = IF client THEN open_clients - 1 ELSE open_clients
    /\ last_call' = CallOf("comfyui", "disconnect")
    /\ UNCHANGED <<connected, api_key, output_dirs, pipeline, mocks, waiting, functions, runs, preview, loader>>

\* ComfyUIBackend.is_available: _ensure_client and the GET are inside the
\* try; only ConnectError and TimeoutException are caught.
ComfyUI_is_available ==
    /\ \E probe \in ProbeStatuses \cup ProbeFailures :
         last_call' =
           IF ~client
           THEN [CallOf("comfyui", "is_available") EXCEPT
                    !.error = IF Caught("RuntimeError", ComfyUICaught)
                              THEN None ELSE "RuntimeError",
                    !.returned = IF Caught("RuntimeError", ComfyUICaught)
                                 THEN "False" ELSE None]
           ELSE IF probe \in ProbeStatuses
           THEN [CallOf("comfyui", "is_available") EXCEPT
                    !.network = <<"GET /system_stats">>,
                    !.probe = probe,
                    !.returned = IF probe = "200" THEN "True" ELSE "False"]
           ELSE IF Caught(probe, ComfyUICaught)
           THEN [CallOf("comfyui", "is_available") EXCEPT
                    !.network = <<"GET /system_stats">>,
                    !.probe = probe,
                    !.returned = "False"]
           ELSE [CallOf("comfyui", "is_available") EXCEPT
                    !.network = <<"GET /system_stats">>,
                    !.probe = probe,
                    !.error = probe]
    /\ UNCHANGED <<connected, client, open_clients, api_key, output_dirs, pipeline, mocks, waiting, functions, runs, preview, loader>>

\* ComfyUIBackend.generate: _ensure_client, POST /prompt, wait for the
\* result, download n images; the result reports request.seed.
ComfyUI_generate ==
    /\ \E request \in BackendRequests,
          outcome \in {"ok", "HTTPStatusError", "TimeoutError"},
          n \in 0..1 :
         last_call' =
           IF ~client
           THEN [CallOf("comfyui", "generate") EXCEPT
                    !.request = request, !.error = "RuntimeError"]
           ELSE IF outcome = "HTTPStatusError"
           THEN [CallOf("comfyui", "generate") EXCEPT
                    !.request = request, !.error = outcome,
                    !.network = <<"POST /prompt">>,
                    !.used_seed = WorkflowSeed(request)]
           ELSE IF outcome = "TimeoutError"
           THEN [CallOf("comfyui", "generate") EXCEPT
                    !.request = request, !.error = outcome,
                    !.network = <<"POST /prompt", "GET /history">>,
                    !.used_seed = WorkflowSeed(request)]
           ELSE [CallOf("comfyui", "generate") EXCEPT
                    !.request = request,
                    !.network = <<"POST /prompt", "GET /history">>
                                \o [k \in 1..n |-> "GET /view"],
                    !.files = [k \in 1..n |-> <<"comfyui", k>>],
                    !.seed = ComfyUIResultSeed(request),
                    !.used_seed = WorkflowSeed(request)]
    /\ UNCHANGED <<connected, client, open_clients, api_key, output_dirs, pipeline, mocks, waiting, functions, runs, preview, loader>>

\* ComfyUIBackend.get_models: _ensure_client, then one GET.
ComfyUI_get_models ==
    /\ \E outcome \in {"ok", "HTTPStatusError"} :
         last_call' =
           IF ~client
           THEN [CallOf("comfyui", "get_models") EXCEPT !.error = "RuntimeError"]
           ELSE [CallOf("comfyui", "get_models") EXCEPT
                    !.network = <<"GET /object_info/CheckpointLoaderSimple">>,
                    !.error = IF outcome = "ok" THEN None ELSE outcome]
    /\ UNCHANGED <<connected, client, open_clients, api_key, output_dirs, pipeline, mocks, waiting, functions, runs, preview, loader>>

\* FalBackend.connect: the key from the settings or the environment
\* (possibly empty), and the output directory.
Fal_connect ==
    /\ api_key' \in {"", "key"}
    /\ output_dirs' = output_dirs \cup {"fal"}
    /\ connected' = MarkConnected("fal")
    /\ last_call' = [CallOf("fal", "connect") EXCEPT !.files = <<MkDir>>]
    /\ UNCHANGED <<client, open_clients, pipeline, mocks, waiting, functions, runs, preview, loader>>

\* FalBackend.disconnect: nothing to close.
Fal_disconnect ==
    /\ last_call' = CallOf("fal", "disconnect")
    /\ UNCHANGED <<connected, client, open_clients, api_key, output_dirs, pipeline, mocks, waiting, functions, runs, preview, loader>>

\* FalBackend.is_available: False without a key; otherwise a GET whose
\* failures of class httpx.HTTPError or OSError are absorbed.
Fal_is_available ==
    /\ \E probe \in ProbeStatuses \cup ProbeFailures \cup {"OSError"} :
         last_call' =
           IF api_key = ""
           THEN [CallOf("fal", "is_available") EXCEPT !.returned = "False"]
           ELSE IF probe \in ProbeStatuses
           THEN [CallOf("fal", "is_available") EXCEPT
                    !.network = <<"GET queue.fal.run">>,
                    !.probe = probe,
                    !.returned = IF probe # "401" THEN "True" ELSE "False"]
           ELSE IF Caught(probe, FalCaught)
           THEN [CallOf("fal", "is_available") EXCEPT
                    !.network = <<"GET queue.fal.run">>,
                    !.probe = probe,
                    !.returned = "False"]
           ELSE [CallOf("fal", "is_available") EXCEPT
                    !.network = <<"GET queue.fal.run">>,
                    !.probe = probe,
                    !.error = probe]
    /\ UNCHANGED <<connected, client, open_clients, api_key, output_dirs, pipeline, mocks, waiting, functions, runs, preview, loader>>

\* FalBackend.generate: no look at the connection state; uploads, one
\* subscribe call, then the downloads into output_dir.  The job runs with
\* the request's seed when one is sent, and its result may or may not
\* report the seed.
Fal_generate ==
    /\ \E request \in BackendRequests, outcome \in {"ok", "FalClientError"},
          n \in 0..1, reports_seed \in BOOLEAN :
         LET used == IF "seed" \in build_params(request)
                     THEN request.seed ELSE ServiceSeed
             sent == Uploads(request) \o <<"subscribe">>
             call == [CallOf("fal", "generate") EXCEPT
                         !.request = request,
                         !.endpoint = select_endpoint(request),
                         !.params = build_params(request),
                         !.used_seed = used]
         IN  last_call' =
               IF outcome = "FalClientError"
               THEN [call EXCEPT !.error = outcome, !.network = sent]
               ELSE IF n > 0 /\ "fal" \notin output_dirs
               THEN [call EXCEPT !.error = "FileNotFoundError",
                                 !.network = sent \o <<"GET image url">>]
               ELSE [call EXCEPT
                        !.network = sent \o [k \in 1..n |-> "GET image url"],
                        !.files = [k \in 1..n |-> <<"fal", k>>],
                        !.seed = IF reports_seed THEN used ELSE request.seed]
    /\ UNCHANGED <<connected, client, open_clients, api_key, output_dirs, pipeline, mocks, waiting, functions, runs, preview, loader>>

\* MockBackend.connect: the output directory.
Mock_connect ==
    /\ output_dirs' = output_dirs \cup {"mock"}
    /\ connected' = MarkConnected("mock")
    /\ last_call' = [CallOf("mock", "connect") EXCEPT !.files = <<MkDir>>]
    /\ UNCHANGED <<client, open_clients, api_key, pipeline, mocks, waiting, functions, runs, preview, loader>>

\* MockBackend.disconnect: pass.
Mock_disconnect ==
    /\ last_call' = CallOf("mock", "disconnect")
    /\ UNCHANGED <<connected, client, open_clients, api_key, output_dirs, pipeline, mocks, waiting, functions, runs, preview, loader>>

\* MockBackend.is_available: True.
Mock_is_available ==
    /\ last_call' = [CallOf("mock", "is_available") EXCEPT !.returned = "True"]
    /\ UNCHANGED <<connected, client, open_clients, api_key, output_dirs, pipeline, mocks, waiting, functions, runs, preview, loader>>

\* MockBackend.generate: no look at the connection state; the image is
\* drawn, the directory made, the file saved.
Mock_generate ==
    /\ \E request \in BackendRequests :
         LET seed == MockSeed(request) IN
         last_call' =
           [CallOf("mock", "generate") EXCEPT
               !.request = request,
               !.files = <<MkDir, MockFile(seed, request.width, request.height)>>,
               !.seed = seed,
               !.used_seed = seed]
    /\ output_dirs' = output_dirs \cup {"mock"}
    /\ UNCHANGED <<connected, client, open_clients, api_key, pipeline, mocks, waiting, functions, runs, preview, loader>>

InitBackends == InitWith({"direct"}, {IdleCharacter})

NextBackends ==
    \/ ComfyUI_connect
    \/ ComfyUI_disconnect
    \/ ComfyUI_is_available
    \/ ComfyUI_generate
    \/ ComfyUI_get_models
    \/ Fal_connect
    \/ Fal_disconnect
    \/ Fal_is_available
    \/ Fal_generate
    \/ Mock_connect
    \/ Mock_disconnect
    \/ Mock_is_available
    \/ Mock_generate

SpecBackends == InitBackends /\ [][NextBackends]_vars

\* ------------------------------------------------- waiting for one job
NotifyStep(cbs) == Append(cbs, <<1, 10, "Generating...">>)

\* `if progress_callback: progress_callback(0, 0, "Generating...")`
Notify(cbs) == Append(cbs, GeneratingStatus)

\* `_time.monotonic() > deadline`
DeadlinePassed(t, d) == t > d

\* _wait_for_result is called: deadline = monotonic() + timeout.
WaitBegin ==
    /\ w_pc = "idle"
    /\ \E timeout \in 1..MaxTimeout, cb \in BOOLEAN :
         /\ deadline' = now + timeout
         /\ progress_callback' = cb
    /\ w_pc' = "top"
    /\ UNCHANGED <<now, polls, callbacks, job_images, images, w_error>>
    /\ UNCHANGED <<pipeline, backends, mocks, functions, runs, preview, loader>>

\* Top of the loop, deadline passed: TimeoutError, no poll.
WaitTimesOut ==
    /\ w_pc = "top"
    /\ DeadlinePassed(now, deadline)
    /\ w_pc' = "raised"
    /\ w_error' = "TimeoutError"
    /\ UNCHANGED <<now, deadline, progress_callback, polls, callbacks, job_images, images>>
    /\ UNCHANGED <<pipeline, backends, mocks, functions, runs, preview, loader>>

\* A poll whose history does not hold the job yet: the callback, if any,
\* then the sleep.
PollIncomplete ==
    /\ w_pc = "top"
    /\ ~DeadlinePassed(now, deadline)
    /\ polls' = polls + 1
    /\ \E d \in Delays : now' = now + d
    /\ callbacks' = IF progress_callback THEN Notify(callbacks) ELSE callbacks
    /\ w_pc' = "sleep"
    /\ UNCHANGED <<deadline, progress_callback, job_images, images, w_error>>
    /\ UNCHANGED <<pipeline, backends, mocks, functions, runs, preview, loader>>

\* A poll that fails: raise_for_status (or the transport) raises.
PollRaises ==
    /\ w_pc = "top"
    /\ ~DeadlinePassed(now, deadline)
    /\ polls' = polls + 1
    /\ \E d \in Delays : now' = now + d
    /\ w_pc' = "raised"
    /\ w_error' = "HTTPStatusError"
    /\ UNCHANGED <<deadline, progress_callback, callbacks, job_images, images>>
    /\ UNCHANGED <<pipeline, backends, mocks, functions, runs, preview, loader>>

\* A poll whose history holds the job, with n output images.
PollFindsJob ==
    /\ w_pc = "top"
    /\ ~DeadlinePassed(now, deadline)
    /\ polls' = polls + 1
    /\ \E d \in Delays : now' = now + d
    /\ \E n \in 0..MaxImages : job_images' = n
    /\ w_pc' = "download"
    /\ UNCHANGED <<deadline, progress_callback, callbacks, images, w_error>>
    /\ UNCHANGED <<pipeline, backends, mocks, functions, runs, preview, loader>>

\* One image is fetched from /view and written to output_dir.
DownloadImage ==
    /\ w_pc = "download"
    /\ Len(images) < job_images
    /\ images' = Append(images, Len(images) + 1)
    /\ \E d \in Delays : now' = now + d
    /\ UNCHANGED <<w_pc, deadline, progress_callback, polls, callbacks, job_images, w_error>>
    /\ UNCHANGED <<pipeline, backends, mocks, functions, runs, preview, loader>>

\* img_resp.raise_for_status() raises for one image.
DownloadRaises ==
    /\ w_pc = "download"
    /\ Len(images) < job_images
    /\ w_pc' = "raised"
    /\ w_error' = "HTTPStatusError"
    /\ \E d \in Delays : now' = now + d
    /\ UNCHANGED <<deadline, progress_callback, polls, callbacks, job_images, images>>
    /\ UNCHANGED <<pipeline, backends, mocks, functions, runs, preview, loader>>

\* `return images`
WaitReturns ==
    /\ w_pc = "download"
    /\ Len(images) = job_images
    /\ w_pc' = "returned"
    /\ UNCHANGED <<now, deadline, progress_callback, polls, callbacks, job_images, images, w_error>>
    /\ UNCHANGED <<pipeline, backends, mocks, functions, runs, preview, loader>>

\* `await asyncio.sleep(1.0)`: at least the interval passes.
Sleep ==
    /\ w_pc = "sleep"
    /\ \E d \in Delays : now' = now + PollInterval + d
    /\ w_pc' = "top"
    /\ UNCHANGED <<deadline, progress_callback, polls, callbacks, job_images, images, w_error>>
    /\ UNCHANGED <<pipeline, backends, mocks, functions, runs, preview, loader>>

InitWaiting == InitWith({"direct"}, {IdleCharacter})

NextWaiting ==
    \/ WaitBegin
    \/ WaitTimesOut
    \/ PollIncomplete
    \/ PollRaises
    \/ PollFindsJob
    \/ DownloadImage
    \/ DownloadRaises
    \/ WaitReturns
    \/ Sleep

SpecWaiting == InitWaiting /\ [][NextWaiting]_vars

\* The event loop resumes the coroutine whenever the request or the sleep
\* it awaits is over, and every request is bounded by the client's own
\* timeout.
SpecWaitingFair == SpecWaiting /\ WF_vars(NextWaiting)

\* --------------------------------------------------- pipeline functions
\* interpolate_poses and assemble_sprite_sheet, each applied once to
\* arguments drawn from bounded sets.
InitFunctions ==
    /\ PipelineInit({"direct"}, {IdleCharacter})
    /\ BackendsIdle /\ MocksIdle /\ WaitingIdle
    /\ RunsIdle /\ PreviewIdle /\ LoaderIdle
    /\ fn \in {"interpolate_poses", "assemble_sprite_sheet"}
    /\ fn_done = FALSE
    /\ p_result = NoPoseResult
    /\ a_result = NoSheetResult
    /\ IF fn = "interpolate_poses"
       THEN /\ p_sequence \in SeqsUpTo(Coords, MaxSrcFrames)
            /\ p_target \in (0 - 1)..MaxTarget
            /\ a_frames = << >>
            /\ a_direction = "horizontal"
            /\ a_padding = 0
            /\ a_frame_size = <<1, 1>>
            /\ a_output = "absent"
       ELSE /\ a_frames \in SeqsUpTo(FrameFiles, MaxSheetFrames)
            /\ a_direction \in Directions
            /\ a_padding \in 0..MaxPadding
            /\ a_frame_size \in FrameSizes
            /\ a_output \in OutputFiles
            /\ p_sequence = << >>
            /\ p_target = 0

\* interpolate_poses(sequence, target_frames)
ApplyInterpolate ==
    /\ fn = "interpolate_poses"
    /\ ~fn_done
    /\ p_result' = InterpolatedKeypoints(p_sequence, p_target)
    /\ fn_done' = TRUE
    /\ UNCHANGED <<fn, p_sequence, p_target, a_frames, a_direction, a_padding,
                   a_frame_size, a_output, a_result>>
    /\ UNCHANGED <<pipeline, backends, mocks, waiting, runs, preview, loader>>

\* assemble_sprite_sheet(frames, output, frame_size, direction=, padding=)
ApplyAssemble ==
    /\ fn = "assemble_sprite_sheet"
    /\ ~fn_done
    /\ a_result' = assemble_sprite_sheet(a_frames, a_output, a_frame_size,
                                         a_direction, a_padding)
    /\ fn_done' = TRUE
    /\ UNCHANGED <<fn, p_sequence, p_target, p_result, a_frames, a_direction,
                   a_padding, a_frame_size, a_output>>
    /\ UNCHANGED <<pipeline, backends, mocks, waiting, runs, preview, loader>>

NextFunctions ==
    \/ ApplyInterpolate
    \/ ApplyAssemble

SpecFunctions == InitFunctions /\ [][NextFunctions]_vars

\* ----------------------------------------------------- the mock backend
\* Two MockBackend objects with the files they write, and the history of
\* their generate calls.
\* MockBackend.connect on one instance.
MockInstance_connect ==
    /\ \E inst \in MockInstances : mock_dirs' = mock_dirs \cup {inst}
    /\ UNCHANGED <<mock_disk, mock_log, pipeline, backends, waiting, functions, runs, preview, loader>>

\* MockBackend.generate on one instance: the seed, the image, the
\* directory, the file (an existing file of that name is overwritten), the
\* result.
MockInstance_generate ==
    /\ Len(mock_log) < MaxCalls
    /\ \E inst \in MockInstances, request \in MockRequests :
         LET seed == MockSeed(request)
             img == create_gradient_image(request.width, request.height,
                                          request.prompt, seed)
             out_path == <<inst, MockFile(seed, request.width, request.height)>>
         IN  /\ mock_dirs' = mock_dirs \cup {inst}
             /\ mock_disk' = (out_path :> img) @@ mock_disk
             /\ mock_log' = Append(mock_log,
                               [instance |-> inst, request |-> request,
                                images |-> <<out_path>>, seed |-> seed,
                                content |-> mock_disk'[out_path]])
    /\ UNCHANGED <<pipeline, backends, waiting, functions, runs, preview, loader>>

InitMocks == InitWith({"direct"}, {IdleCharacter})

NextMocks ==
    \/ MockInstance_connect
    \/ MockInstance_generate

SpecMocks == InitMocks /\ [][NextMocks]_vars

\* ------------------------------------------- callers of the backends
\* The backend set-up and tear-down of the callers: the generation screen
\* (whose set-up ScreenSetup summarises), the export screen, the CLI
\* commands generate and check, and the preview server's generation run.
\* The instance built from the configuration is "configured", the
\* MockBackend of the fall-back is "fallback".
Screens == {"screen", "export"}
Commands == {"cli_generate", "cli_check", "preview"}

AfterSetupKept(available) == "configured"

\* `if not backend_available: backend = MockBackend(output_dir=output_dir)`
AfterSetup(available) == IF available THEN "configured" ELSE "fallback"

\* The run of a screen ends without passing its finally block.
RunDies ==
    /\ r_pc' = "dead"
    /\ r_exit' = "exception"

\* action_start_generation, _start_export
StartRun ==
    /\ r_caller \in Screens
    /\ r_pc # "popped"
    /\ IF r_running
       THEN /\ r_status' = "already in progress"
            /\ UNCHANGED <<r_pc, r_running, r_cancel, r_runs, r_exit>>
       ELSE /\ r_runs < MaxRuns
            /\ r_running' = TRUE
            /\ r_cancel' = FALSE
            /\ r_status' = "started"
            /\ r_pc' = "pre"
            /\ r_exit' = None
            /\ r_runs' = r_runs + 1
    /\ UNCHANGED <<r_caller, r_config, r_backend, r_opened, r_closed, r_failed,
                   r_available, r_invoked>>
    /\ UNCHANGED <<pipeline, backends, mocks, waiting, functions, preview, loader>>

\* action_cancel_generation, _cancel_export
CancelRun ==
    /\ r_caller \in Screens
    /\ r_pc # "popped"
    /\ IF r_running
       THEN /\ r_cancel' = TRUE
            /\ r_status' = "cancelling"
       ELSE /\ r_status' = "nothing running"
            /\ UNCHANGED r_cancel
    /\ UNCHANGED <<r_caller, r_config, r_pc, r_backend, r_opened, r_closed, r_failed,
                   r_available, r_invoked, r_running, r_exit, r_runs>>
    /\ UNCHANGED <<pipeline, backends, mocks, waiting, functions, preview, loader>>

\* on_button_pressed, "btn-back": the screen is popped unless _running.
BackPressed ==
    /\ r_caller \in Screens
    /\ r_pc # "popped"
    /\ IF r_running
       THEN /\ r_status' = "cancel before going back"
            /\ UNCHANGED r_pc
       ELSE /\ r_pc' = "popped"
            /\ UNCHANGED r_status
    /\ UNCHANGED <<r_caller, r_config, r_backend, r_opened, r_closed, r_failed,
                   r_available, r_invoked, r_running, r_cancel, r_exit, r_runs>>
    /\ UNCHANGED <<pipeline, backends, mocks, waiting, functions, preview, loader>>

\* GenerationScreen._run_generation up to the construction of the backend:
\* load_config and output_dir.mkdir stand outside every try block.
Gen_pre ==
    /\ r_caller = "screen"
    /\ r_pc = "pre"
    /\ \E ok \in BOOLEAN :
          IF ok
          THEN /\ r_backend' = <<r_runs, "configured">>
               /\ r_available' = FALSE
               /\ r_pc' = "connect"
               /\ UNCHANGED r_exit
          ELSE /\ RunDies
               /\ UNCHANGED <<r_backend, r_available>>
    /\ UNCHANGED <<r_caller, r_config, r_opened, r_closed, r_failed, r_invoked,
                   r_running, r_cancel, r_runs, r_status>>
    /\ UNCHANGED <<pipeline, backends, mocks, waiting, functions, preview, loader>>

\* `try: await backend.connect(); backend_available = await
\* backend.is_available()  except Exception`. MockBackend.is_available
\* returns True.
Gen_connect ==
    /\ r_caller = "screen"
    /\ r_pc = "connect"
    /\ \E outcome \in {"raises", "unavailable", "probe raises", "available"} :
          /\ outcome \in {"unavailable", "probe raises"} => r_config # "mock"
          /\ r_opened' = IF outcome = "raises" THEN r_opened
                         ELSE r_opened \cup {r_backend}
          /\ r_failed' = IF outcome = "available" THEN r_failed
                         ELSE r_failed \cup {r_backend}
          /\ r_available' = (outcome = "available")
    /\ r_pc' = "fallback"
    /\ UNCHANGED <<r_caller, r_config, r_backend, r_closed, r_invoked, r_running,
                   r_cancel, r_exit, r_runs, r_status>>
    /\ UNCHANGED <<pipeline, backends, mocks, waiting, functions, preview, loader>>

\* `if not backend_available:` the MockBackend replaces the backend and is
\* connected; its output directory exists since output_dir.mkdir.
Gen_fallback ==
    /\ r_caller = "screen"
    /\ r_pc = "fallback"
    /\ r_backend' = <<r_runs, AfterSetup(r_available)>>
    /\ r_opened' = IF r_available THEN r_opened ELSE r_opened \cup {r_backend'}
    /\ r_available' = TRUE
    /\ r_pc' = "phase1"
    /\ UNCHANGED <<r_caller, r_config, r_closed, r_failed, r_invoked, r_running,
                   r_cancel, r_exit, r_runs, r_status>>
    /\ UNCHANGED <<pipeline, backends, mocks, waiting, functions, preview, loader>>

\* Phases 1, 2 and 4 inside the try block: `if _cancelled(): return`, then
\* the pipeline is called with `backend`; what it raises is logged.
Gen_phase ==
    /\ r_caller = "screen"
    /\ r_pc \in {"phase1", "phase2", "phase4"}
    /\ IF r_cancel
       THEN /\ r_pc' = "finally"
            /\ UNCHANGED r_invoked
       ELSE /\ r_pc' = CASE r_pc = "phase1" -> "phase2"
                         [] r_pc = "phase2" -> "phase4"
                         [] OTHER -> "finally"
            /\ \/ /\ r_pc = "phase1"
                  /\ r_available
                  /\ r_invoked' = Append(r_invoked, <<"background", r_backend>>)
               \/ /\ r_pc = "phase2"
                  /\ r_available
                  /\ \E has \in BOOLEAN :
                        r_invoked' = IF has
                                     THEN Append(r_invoked, <<"character", r_backend>>)
                                     ELSE r_invoked
               \/ /\ r_pc = "phase4"
                  /\ UNCHANGED r_invoked
    /\ UNCHANGED <<r_caller, r_config, r_backend, r_opened, r_closed, r_failed,
                   r_available, r_running, r_cancel, r_exit, r_runs, r_status>>
    /\ UNCHANGED <<pipeline, backends, mocks, waiting, functions, preview, loader>>

\* finally: `await backend.disconnect()`, proj.save(), _running = False.
Gen_finally ==
    /\ r_caller = "screen"
    /\ r_pc = "finally"
    /\ r_closed' = r_closed \cup {r_backend}
    /\ r_running' = FALSE
    /\ r_status' = IF r_cancel THEN "cancelled" ELSE "complete"
    /\ r_exit' = "return"
    /\ r_pc' = "idle"
    /\ UNCHANGED <<r_caller, r_config, r_backend, r_opened, r_failed, r_available,
                   r_invoked, r_cancel, r_runs>>
    /\ UNCHANGED <<pipeline, backends, mocks, waiting, functions, preview, loader>>

\* ExportScreen._run_export: the log and progress calls before the try
\* block, the cancelled return, and try / except / finally.
Exp_run ==
    /\ r_caller = "export"
    /\ r_pc = "pre"
    /\ \E outcome \in {"raises before try", "done"} :
          IF outcome = "raises before try"
          THEN /\ RunDies
               /\ UNCHANGED <<r_running, r_status>>
          ELSE /\ r_running' = FALSE
               /\ r_status' = IF r_cancel THEN "cancelled" ELSE "complete or failed"
               /\ r_exit' = "return"
               /\ r_pc' = "idle"
    /\ UNCHANGED <<r_caller, r_config, r_backend, r_opened, r_closed, r_failed,
                   r_available, r_invoked, r_cancel, r_runs>>
    /\ UNCHANGED <<pipeline, backends, mocks, waiting, functions, preview, loader>>

\* The commands build their backend and call connect before any try
\* block; `check` builds none for the mock backend.
Cmd_connect ==
    /\ r_caller \in Commands
    /\ r_pc = "idle"
    /\ r_runs' = r_runs + 1
    /\ IF r_caller = "cli_check" /\ r_config = "mock"
       THEN /\ r_pc' = "done"
            /\ r_exit' = "return"
            /\ UNCHANGED <<r_backend, r_opened, r_failed>>
       ELSE /\ r_backend' = <<r_runs', "configured">>
            /\ \E ok \in BOOLEAN :
                  IF ok
                  THEN /\ r_opened' = r_opened \cup {r_backend'}
                       /\ r_pc' = IF r_caller = "preview" THEN "work" ELSE "probe"
                       /\ UNCHANGED <<r_failed, r_exit>>
                  ELSE /\ r_failed' = r_failed \cup {r_backend'}
                       /\ r_pc' = "done"
                       /\ r_exit' = "exception"
                       /\ UNCHANGED r_opened
    /\ UNCHANGED <<r_caller, r_config, r_closed, r_available, r_invoked, r_running,
                   r_cancel, r_status>>
    /\ UNCHANGED <<pipeline, backends, mocks, waiting, functions, preview, loader>>

\* cli: `available = await backend.is_available()` inside try; when it is
\* False the command raises typer.Exit(1).
Cmd_probe ==
    /\ r_caller \in {"cli_generate", "cli_check"}
    /\ r_pc = "probe"
    /\ \E outcome \in {"unavailable", "probe raises", "available"} :
          /\ outcome # "available" => r_config # "mock"
          /\ r_available' = (outcome = "available")
          /\ r_failed' = IF outcome = "available" THEN r_failed
                         ELSE r_failed \cup {r_backend}
          /\ r_pc' = IF outcome = "available" THEN "work" ELSE "finally"
          /\ r_exit' = IF outcome = "available" THEN r_exit ELSE "exception"
    /\ UNCHANGED <<r_caller, r_config, r_backend, r_opened, r_closed, r_invoked,
                   r_running, r_cancel, r_runs, r_status>>
    /\ UNCHANGED <<pipeline, backends, mocks, waiting, functions, preview, loader>>

\* generate (cli generate, preview server) or get_models (cli check). The
\* commands call it inside try / finally; PreviewServer._run_generation
\* has no try block, so an exception or the cancellation of its task
\* leaves it at once.
Cmd_work ==
    /\ r_caller \in Commands
    /\ r_pc = "work"
    /\ r_invoked' = Append(r_invoked,
                           <<IF r_caller = "cli_check" THEN "get_models" ELSE "generate",
                             r_backend>>)
    /\ \E ok \in BOOLEAN :
          IF ok
          THEN /\ r_pc' = "finally"
               /\ r_exit' = "return"
          ELSE /\ r_pc' = IF r_caller = "preview" THEN "done" ELSE "finally"
               /\ r_exit' = "exception"
    /\ UNCHANGED <<r_caller, r_config, r_backend, r_opened, r_closed, r_failed,
                   r_available, r_running, r_cancel, r_runs, r_status>>
    /\ UNCHANGED <<pipeline, backends, mocks, waiting, functions, preview, loader>>

\* `finally: await backend.disconnect()` of the commands, the last line
\* of PreviewServer._run_generation.
Cmd_disconnect ==
    /\ r_caller \in Commands
    /\ r_pc = "finally"
    /\ r_closed' = r_closed \cup {r_backend}
    /\ r_pc' = "done"
    /\ UNCHANGED <<r_caller, r_config, r_backend, r_opened, r_failed, r_available,
                   r_invoked, r_running, r_cancel, r_exit, r_runs, r_status>>
    /\ UNCHANGED <<pipeline, backends, mocks, waiting, functions, preview, loader>>

InitRuns ==
    /\ PipelineInit({"direct"}, {IdleCharacter})
    /\ BackendsIdle /\ MocksIdle /\ WaitingIdle /\ FunctionsIdle
    /\ PreviewIdle /\ LoaderIdle
    /\ r_caller \in Screens \cup Commands
    /\ r_config \in IF r_caller = "preview" THEN {"mock"} ELSE Variants
    /\ r_pc = "idle"
    /\ r_backend = <<0, None>>
    /\ r_opened = {}
    /\ r_closed = {}
    /\ r_failed = {}
    /\ r_available = FALSE
    /\ r_invoked = << >>
    /\ r_running = FALSE
    /\ r_cancel = FALSE
    /\ r_exit = None
    /\ r_runs = 0
    /\ r_status = "ready"

NextRuns ==
    \/ StartRun
    \/ CancelRun
    \/ BackPressed
    \/ Gen_pre
    \/ Gen_connect
    \/ Gen_fallback
    \/ Gen_phase
    \/ Gen_finally
    \/ Exp_run
    \/ Cmd_connect
    \/ Cmd_probe
    \/ Cmd_work
    \/ Cmd_disconnect

SpecRuns == InitRuns /\ [][NextRuns]_vars

\* ----------------------------------------------------- preview server
\* PreviewServer: the generation task, the queue its progress callback
\* fills, the broadcast loop that drains it, and the WebSocket clients.
ProgressMessage(step) == <<"progress", step, TotalSteps>>
CompleteMessage == <<"complete", 0, 0>>

DequeueNewest(queue) == [msg |-> queue[Len(queue)], rest |-> SubSeq(queue, 1, Len(queue) - 1)]

\* `msg = await self._queue.get()`: asyncio.Queue hands out the oldest entry.
Dequeue(queue) == [msg |-> Head(queue), rest |-> Tail(queue)]

\* _ws_handler: a client connects.
ws_connect ==
    /\ \E c \in WsClients \ (ws_clients \cup ws_gone) : ws_clients' = ws_clients \cup {c}
    /\ UNCHANGED <<ws_pc, ws_step, ws_queue, ws_early, ws_gone, ws_received>>
    /\ UNCHANGED <<pipeline, backends, mocks, waiting, functions, runs, loader>>

\* _ws_handler, finally: a client has gone.
ws_disconnect ==
    /\ \E c \in ws_clients :
          /\ ws_clients' = ws_clients \ {c}
          /\ ws_early' = ws_early \ {c}
          /\ ws_gone' = ws_gone \cup {c}
    /\ UNCHANGED <<ws_pc, ws_step, ws_queue, ws_received>>
    /\ UNCHANGED <<pipeline, backends, mocks, waiting, functions, runs, loader>>

\* run(): the broadcast and generation tasks are created;
\* _run_generation connects its MockBackend and calls generate.
preview_start ==
    /\ ws_pc = "idle"
    /\ ws_pc' = "generate"
    /\ ws_early' = ws_clients
    /\ UNCHANGED <<ws_step, ws_queue, ws_clients, ws_received, ws_gone>>
    /\ UNCHANGED <<pipeline, backends, mocks, waiting, functions, runs, loader>>

\* MockBackend.generate, one turn of its loop: the callback enqueues
\* progress step + 1, then `await asyncio.sleep(0.05)`.
preview_progress ==
    /\ ws_pc = "generate"
    /\ ws_step < TotalSteps
    /\ ws_step' = ws_step + 1
    /\ ws_queue' = Append(ws_queue, ProgressMessage(ws_step + 1))
    /\ UNCHANGED <<ws_pc, ws_clients, ws_early, ws_received, ws_gone>>
    /\ UNCHANGED <<pipeline, backends, mocks, waiting, functions, runs, loader>>

\* generate returns its one image; _run_generation enqueues the complete
\* message and disconnects.
preview_complete ==
    /\ ws_pc = "generate"
    /\ ws_step = TotalSteps
    /\ ws_queue' = Append(ws_queue, CompleteMessage)
    /\ ws_pc' = "done"
    /\ UNCHANGED <<ws_step, ws_clients, ws_early, ws_received, ws_gone>>
    /\ UNCHANGED <<pipeline, backends, mocks, waiting, functions, runs, loader>>

\* _broadcast_loop, one turn: the message goes to every connected client.
broadcast_loop ==
    /\ ws_pc # "idle"
    /\ ws_queue # << >>
    /\ ws_queue' = Dequeue(ws_queue).rest
    /\ ws_received' = [c \in WsClients |->
                          IF c \in ws_clients
                          THEN Append(ws_received[c], Dequeue(ws_queue).msg)
                          ELSE ws_received[c]]
    /\ UNCHANGED <<ws_pc, ws_step, ws_clients, ws_early, ws_gone>>
    /\ UNCHANGED <<pipeline, backends, mocks, waiting, functions, runs, loader>>

InitPreview == InitWith({"direct"}, {IdleCharacter})

NextPreview ==
    \/ ws_connect
    \/ ws_disconnect
    \/ preview_start
    \/ preview_progress
    \/ preview_complete
    \/ broadcast_loop

SpecPreview == InitPreview /\ [][NextPreview]_vars

\* The event loop runs every task that is ready.
SpecPreviewFair ==
    /\ SpecPreview
    /\ WF_vars(preview_start)
    /\ WF_vars(preview_progress)
    /\ WF_vars(preview_complete)
    /\ WF_vars(broadcast_loop)

\* ------------------------------------------------------- pose loader
\* animeforge.poses.loader.load under functools.lru_cache(maxsize=32).

\* The position of a key in the cache, 0 when it is not cached.
CachePosition(cache, key) ==
    IF \E i \in DOMAIN cache : cache[i].key = key
    THEN CHOOSE i \in DOMAIN cache : cache[i].key = key
    ELSE 0

\* A hit moves the entry to the most recently used end.
CacheHit(cache, i) ==
    SubSeq(cache, 1, i - 1) \o SubSeq(cache, i + 1, Len(cache)) \o <<cache[i]>>

\* A miss stores the result; a full cache drops its least recently used
\* entry.
CacheStore(cache, key, obj) ==
    Append(IF Len(cache) >= lru_maxsize THEN Tail(cache) ELSE cache,
           [key |-> key, obj |-> obj])

\* load(name): the callers ask for the missing name, the first name, or
\* the name after the newest one asked for so far.
loader_load ==
    /\ \E name \in {MissingName, 1, Min(l_newest + 1, Cardinality(PoseFileNames))} :
          LET i == CachePosition(l_cache, name)
          IN  IF i # 0
              THEN /\ l_cache' = CacheHit(l_cache, i)
                   /\ l_returned' = [l_returned EXCEPT ![name] = @ \cup {l_cache[i].obj}]
                   /\ l_raised' = None
                   /\ UNCHANGED <<l_reads, l_newest>>
              ELSE IF name = MissingName
              THEN /\ l_raised' = "FileNotFoundError"
                   /\ UNCHANGED <<l_cache, l_reads, l_returned, l_newest>>
              ELSE /\ l_reads[name] < MaxReads
                   /\ l_reads' = [l_reads EXCEPT ![name] = @ + 1]
                   /\ l_cache' = CacheStore(l_cache, name, <<name, l_reads[name] + 1>>)
                   /\ l_returned' = [l_returned EXCEPT
                                        ![name] = @ \cup {<<name, l_reads[name] + 1>>}]
                   /\ l_newest' = Max(l_newest, name)
                   /\ l_raised' = None
    /\ UNCHANGED <<pipeline, backends, mocks, waiting, functions, runs, preview>>

InitLoader == InitWith({"direct"}, {IdleCharacter})

NextLoader == loader_load

SpecLoader == InitLoader /\ [][NextLoader]_vars

\* ------------------------------------------------------------ properties
\* The requests of the animation at position k, in call order.
CallsOf(k) == SelectSeq(calls, LAMBDA c : c.anim = k)

\* Position k was found and interpolated, so its frames are generated.
Generated(k) ==
    /\ PoseFound(animations[k].pose_sequence)
    /\ interpolate_poses(PoseCatalog[animations[k].pose_sequence],
                         animations[k].frame_count).err = None

\* Position k has been left by the loop.
Finished(k) == k < ai \/ (k = ai /\ pc = "frame" /\ idx >= Len(keypoints_list))

\* At least one frame of position k came back with an image.
Succeeded(k) == \E j \in DOMAIN calls : calls[j].anim = k /\ calls[j].images > 0

\* The frames of position k that came back with an image, in call order.
GoodFrames(k) ==
    LET good == SelectSeq(calls, LAMBDA c : c.anim = k /\ c.images > 0) IN
    [j \in DOMAIN good |-> FramePath(k, good[j].frame)]

\* The assembler calls that wrote a sheet.
Written(a) == a.width > 0

\* C1: within one call the generate requests of an animation are frame 0, 1,
\* ..., one per interpolated frame, animations follow each other in list
\* order, a request is issued only when no other is in flight, and the frame
\* list handed to the assembler is in increasing frame index.
C1_SequentialInOrder ==
    /\ Cardinality(inflight) <= 1
    /\ pc = "await" <=> inflight # {}
    /\ inflight # {} => inflight = {[calls[Len(calls)] EXCEPT !.images = NoResult]}
    /\ \A j \in DOMAIN calls : j < Len(calls) => calls[j].anim <= calls[j + 1].anim
    /\ \A k \in DOMAIN animations :
        LET cs == CallsOf(k) IN
        /\ \A j \in DOMAIN cs : cs[j].frame = j - 1
        /\ (Generated(k) /\ Finished(k)) => Len(cs) = animations[k].frame_count
    /\ \A a \in DOMAIN assembled :
        \A i, j \in DOMAIN assembled[a].frames :
            i < j => assembled[a].frames[i].file[2] < assembled[a].frames[j].file[2]

C1_Witness ==
    /\ pc = "returned"
    /\ Len(animations) = 2
    /\ Len(calls) = 4
    /\ Len(assembled) = 2
    /\ Len(assembled[2].frames) = 2

\* C2: a result with zero images raises nothing: the coroutine goes on with
\* the next frame, every frame of a generated animation is still requested,
\* and the assembler gets exactly the frames that returned an image, in
\* their original order.
C2_ZeroImagesContinue ==
    /\ [][(pc = "await" /\ pc' # "await" /\ last_images' = 0)
            => (pc' = "frame" /\ raised' = None /\ idx' = idx + 1
                /\ frame_paths' = frame_paths /\ tmpdirs' = tmpdirs)]_vars
    /\ [](\A k \in DOMAIN animations :
            (Generated(k) /\ Finished(k) /\ raised = None)
                => Len(CallsOf(k)) = animations[k].frame_count)
    /\ [](\A a \in DOMAIN assembled :
            assembled[a].frames = GoodFrames(assembled[a].anim))

C2_Witness ==
    /\ pc = "returned"
    /\ \E j \in DOMAIN calls :
        /\ calls[j].images = 0
        /\ j < Len(calls)
        /\ calls[j + 1].anim = calls[j].anim
        /\ calls[j + 1].images = 1
    /\ \E a \in DOMAIN assembled :
        /\ Written(assembled[a])
        /\ Len(assembled[a].frames) = 1
        /\ animations[assembled[a].anim].frame_count = 2

\* C3 as stated: at return an animation's id is in the mapping exactly when
\* that animation was found and had a frame with an image.
C3_Original ==
    pc = "returned" =>
        \A k \in DOMAIN animations :
            animations[k].id \in DOMAIN results <=> Succeeded(k)

\* C3 amended: at return an id is in the mapping exactly when some requested
\* animation with that id was found and had a frame with an image; the value
\* is output_dir/{character.name}_{id}.png and that file was written; the
\* assembler was called once for each animation with a successful frame and
\* never for one without.
C3_MappingIffSucceeded ==
    pc = "returned" =>
        /\ \A id \in AnimIds :
            id \in DOMAIN results <=>
                \E k \in DOMAIN animations : animations[k].id = id /\ Succeeded(k)
        /\ \A id \in DOMAIN results :
            /\ results[id] = SheetPath(character.name, id)
            /\ results[id] \in DOMAIN sheet_files
        /\ \A k \in DOMAIN animations :
            Cardinality({a \in DOMAIN assembled : assembled[a].anim = k})
                = IF Succeeded(k) THEN 1 ELSE 0
        /\ DOMAIN sheet_files = {results[id] : id \in DOMAIN results}

C3_Witness ==
    /\ pc = "returned"
    /\ Len(animations) = 2
    /\ animations[1].id # animations[2].id
    /\ Succeeded(1)
    /\ Generated(2)
    /\ ~Succeeded(2)
    /\ DOMAIN results = {animations[1].id}

\* C4 as stated: the mapping omits the id of an animation whose pose
\* sequence was not found.
C4_Original ==
    pc = "returned" =>
        \A k \in DOMAIN animations :
            ~PoseFound(animations[k].pose_sequence)
                => animations[k].id \notin DOMAIN results

\* C4 amended: an animation whose pose sequence is not found is skipped and
\* nothing else: the step over it raises nothing and leaves the mapping
\* alone, it gets no generate call, no scratch directory and no assembler
\* call, every generated animation before or after it still gets all its
\* frames requested, and its id is in the returned mapping only when another
\* requested animation with the same id produced a sheet.
C4_MissingPoseSkipped ==
    /\ [][(pc = "loop" /\ ai <= Len(animations) /\ ~PoseFound(Anim.pose_sequence))
            => \/ UNCHANGED orch
               \/ /\ pc' = "loop" /\ ai' = ai + 1 /\ raised' = None
                  /\ results' = results /\ UNCHANGED observed]_vars
    /\ [](\A k \in DOMAIN animations :
            ~PoseFound(animations[k].pose_sequence) =>
                /\ CallsOf(k) = << >>
                /\ k \notin tmpdirs
                /\ \A a \in DOMAIN assembled : assembled[a].anim # k)
    /\ [](pc = "returned" =>
            \A k \in DOMAIN animations :
                /\ Generated(k) => Len(CallsOf(k)) = animations[k].frame_count
                /\ (~PoseFound(animations[k].pose_sequence)
                        /\ animations[k].id \in DOMAIN results)
                    => \E m \in DOMAIN animations :
                        m # k /\ animations[m].id = animations[k].id /\ Succeeded(m))

C4_Witness ==
    /\ pc = "returned"
    /\ Len(animations) = 2
    /\ ~PoseFound(animations[1].pose_sequence)
    /\ animations[2].frame_count = 2
    /\ Len(CallsOf(2)) = 2
    /\ DOMAIN results = {animations[2].id}
    /\ animations[1].id # animations[2].id

\* C5: a timeout raised by backend.generate does not leave the orchestrator.
C5_TimeoutIsFrameFailure == raised # "TimeoutError"

\* C6: no generate call is issued for an animation that began after the
\* cancellation signal was set.
C6_CancelStopsNextAnimation ==
    \A j \in DOMAIN calls : ~calls[j].anim_cancel

\* C7: a scratch directory exists only while its animation is being
\* processed, so at most one exists and none survives an exit from the
\* animation, whichever way; mapping paths lie under output_dir.
C7_ScratchScoped ==
    /\ tmpdirs = IF pc \in {"frame", "await"} THEN {ai} ELSE {}
    /\ Cardinality(tmpdirs) <= 1
    /\ \A id \in DOMAIN results :
        /\ results[id].dir = <<"output_dir">>
        /\ \A k \in DOMAIN animations : results[id].dir # <<"tmp", k>>

C7_Witness ==
    /\ pc = "raised"
    /\ raised \in GenerateErrors
    /\ ai = 2
    /\ Len(calls) >= 2
    /\ DOMAIN results # {}
    /\ tmpdirs = {}

\* C8: every sheet written by the orchestrator has exactly frame_count
\* frames of the configured width, so the export's frame width is the
\* configured width.
C8_SheetHasFrameCountFrames ==
    \A a \in DOMAIN assembled :
        Written(assembled[a]) =>
            /\ Len(assembled[a].frames) = animations[assembled[a].anim].frame_count
            /\ ExportFrameWidth(assembled[a].width,
                                animations[assembled[a].anim].frame_count) = GenWidth

\* C9: after the character phase of a run with an available backend and a
\* character, the orchestrator has returned its mapping to the screen and
\* an animation has a sprite_sheet exactly when its id is in the mapping,
\* the sprite_sheet being the mapped path.
C9_CallerWiresResults ==
    (caller = "screen" /\ backend_available /\ has_character
        /\ char_call \notin {None, "skipped"})
    => /\ char_call = "returned"
       /\ \A k \in DOMAIN animations :
            animations[k].sprite_sheet =
                IF animations[k].id \in DOMAIN results
                THEN results[animations[k].id] ELSE None

\* C10: a request carries the identity reference (image, model, the
\* character's weight) exactly when at least one reference image of the
\* character exists on disk.
AnyReferenceExists ==
    \E r \in DOMAIN character.reference_images : character.reference_images[r]

C10_IpAdapterIffAnyReference ==
    \A j \in DOMAIN calls :
        IF AnyReferenceExists
        THEN /\ calls[j].ip_adapter_image # None
             /\ calls[j].ip_adapter_model # None
             /\ calls[j].ip_adapter_weight = character.ip_adapter_weight
        ELSE /\ calls[j].ip_adapter_image = None
             /\ calls[j].ip_adapter_model = None

\* C11: on each of the three variants, generate on an instance on which
\* connect has not been called raises, and it has sent no network request
\* and written no file when it does.
C11_GenerateBeforeConnectFailsFast ==
    (last_call.op = "generate" /\ ~last_call.was_connected) =>
        /\ last_call.error # None
        /\ last_call.network = << >>
        /\ last_call.files = << >>

\* C12: is_available does not raise when its probe meets a transport
\* failure, it returns False; and a variant with a probe returns True only
\* when the probe got a response.
C12_IsAvailableAbsorbsFailures ==
    last_call.op = "is_available" =>
        /\ last_call.probe \in ProbeFailures \cup {"OSError"} =>
              (last_call.error = None /\ last_call.returned = "False")
        /\ (last_call.returned = "True" /\ last_call.variant # "mock") =>
              last_call.probe \in ProbeStatuses

\* C14: the seed of a GenerationResult is the seed the generation ran
\* with: the request's seed when it is not negative, otherwise 0 on the
\* local-service variant and the prompt-derived seed on the mock.
C14_ReportedSeedIsUsedSeed ==
    (last_call.op = "generate" /\ last_call.error = None) =>
        LET request == last_call.request IN
        /\ request.seed >= 0 =>
              (last_call.seed = request.seed /\ last_call.used_seed = request.seed)
        /\ (request.seed < 0 /\ last_call.variant = "comfyui") =>
              (last_call.seed = 0 /\ last_call.used_seed = 0)
        /\ (request.seed < 0 /\ last_call.variant = "mock") =>
              (last_call.seed = prompt_seed(request.prompt)
               /\ last_call.used_seed = last_call.seed)

\* C15: the cloud variant calls the pose-guide endpoint when the request
\* carries pose-guide conditioning, the identity-reference endpoint when
\* it carries identity-reference conditioning only, and the default
\* endpoint when it carries neither.
C15_EndpointByConditioning ==
    (last_call.op = "generate" /\ last_call.variant = "fal") =>
        last_call.endpoint =
            IF "control_image" \in last_call.params
            THEN FalControlnetModel
            ELSE IF "face_image" \in last_call.params
            THEN FalIpAdapterModel
            ELSE FalDefaultModel

WaitDone == w_pc \in {"returned", "raised"}

\* Some poll found the job in the history.
JobFound == job_images # NoResult

\* The polls so far that found the job incomplete: all but the one that
\* found it or raised.
IncompletePolls ==
    polls - (IF JobFound \/ w_error = "HTTPStatusError" THEN 1 ELSE 0)

\* C13 as stated: the wait terminates; past the deadline the next
\* iteration raises TimeoutError and sends no poll; once a poll has found
\* the job the wait returns the downloaded paths without raising; the
\* callback gets (0, 0, status) once per incomplete poll and is not called
\* after the job was found.
C13_Original ==
    /\ <>WaitDone
    /\ [][(w_pc = "top" /\ DeadlinePassed(now, deadline)) =>
            (w_error' = "TimeoutError" /\ polls' = polls)]_vars
    /\ [](JobFound => w_error = None)
    /\ [](w_pc = "returned" => Len(images) = job_images)
    /\ [](callbacks = [k \in 1..(IF progress_callback THEN IncompletePolls ELSE 0)
                         |-> GeneratingStatus])
    /\ [][JobFound => callbacks' = callbacks]_vars

\* C13 (amended): the wait terminates; past the deadline the next
\* iteration raises TimeoutError and sends no poll, and TimeoutError is
\* raised in no other case; once a poll has found the job no further poll
\* is sent and the wait returns the downloaded paths, possibly none,
\* unless a download request fails, whose error then leaves the wait; the
\* callback, when there is one, gets (0, 0, status) once per incomplete
\* poll and is not called after the job was found.
C13_WaitTerminates ==
    /\ <>WaitDone
    /\ [][(w_pc = "top" /\ DeadlinePassed(now, deadline)) =>
            (w_error' = "TimeoutError" /\ polls' = polls)]_vars
    /\ [](w_error = "TimeoutError" => (DeadlinePassed(now, deadline) /\ ~JobFound))
    /\ [][WaitDone => polls' = polls]_vars
    /\ [][JobFound => polls' = polls]_vars
    /\ []((JobFound /\ w_error # None) =>
             (w_error = "HTTPStatusError" /\ Len(images) < job_images))
    /\ [](w_pc = "returned" =>
             (JobFound /\ w_error = None /\ Len(images) = job_images))
    /\ [](callbacks = [k \in 1..(IF progress_callback THEN IncompletePolls ELSE 0)
                         |-> GeneratingStatus])
    /\ [][JobFound => callbacks' = callbacks]_vars

C13_Witness ==
    /\ w_pc = "returned"
    /\ progress_callback
    /\ polls >= 3
    /\ Len(callbacks) = polls - 1
    /\ images = << >>
    /\ job_images = 0

\* interpolate_poses has been applied to a sequence of n_src frames.
Interpolated ==
    fn = "interpolate_poses" /\ fn_done

\* The source position of output index k, times its denominator.
Position(k) ==
    p_result.indices[k].lo * p_result.indices[k].den + p_result.indices[k].num

\* C17: for N >= 1 source frames and a target T >= 1, interpolate_poses
\* returns exactly T keypoint sets and reads source indices in 0..N-1 only.
C17_ExactlyTargetFrames ==
    (Interpolated /\ Len(p_sequence) >= 1 /\ p_target >= 1) =>
        /\ p_result.err = None
        /\ Len(p_result.keypoints) = p_target
        /\ \A k \in DOMAIN p_result.indices :
              /\ p_result.indices[k].lo \in 0..(Len(p_sequence) - 1)
              /\ p_result.indices[k].hi \in 0..(Len(p_sequence) - 1)

\* C18: for N >= 1 source frames and a target T >= 2, output frame 0 is
\* source frame 0, output frame T-1 is source frame N-1, and the source
\* position does not decrease with the output index.
C18_EndpointExact ==
    (Interpolated /\ Len(p_sequence) >= 1 /\ p_target >= 2) =>
        /\ p_result.err = None
        /\ Len(p_result.keypoints) = p_target
        /\ SameKeypoints(p_result.keypoints[1], Kp(p_sequence[1]))
        /\ SameKeypoints(p_result.keypoints[p_target], Kp(p_sequence[Len(p_sequence)]))
        /\ \A k \in 1..(p_target - 1) : Position(k) <= Position(k + 1)

\* C19 as stated: for a sequence of N frames, interpolate_poses with
\* target_frames = N returns the N source keypoint sets as they are, in
\* order, and leaves the sequence as it was.
C19_Original ==
    /\ []((Interpolated /\ p_target = Len(p_sequence)) =>
             (p_result.err = None
              /\ p_result.keypoints = [k \in DOMAIN p_sequence |-> Kp(p_sequence[k])]))
    /\ [][p_sequence' = p_sequence]_vars

\* C19 (amended): for a sequence of N >= 1 frames, interpolate_poses with
\* target_frames = N returns the N source keypoint sets as they are, in
\* order, and leaves the sequence as it was; for N = 0 it raises
\* ValueError.
C19_IdentityAtSourceCount ==
    /\ []((Interpolated /\ p_target = Len(p_sequence) /\ Len(p_sequence) >= 1) =>
             (p_result.err = None
              /\ p_result.keypoints = [k \in DOMAIN p_sequence |-> Kp(p_sequence[k])]))
    /\ []((Interpolated /\ p_target = Len(p_sequence) /\ Len(p_sequence) = 0) =>
             (p_result.err = "ValueError" /\ p_result.keypoints = << >>))
    /\ [][p_sequence' = p_sequence]_vars

C19_Witness ==
    /\ Interpolated
    /\ Len(p_sequence) = 3
    /\ p_target = 3
    /\ p_sequence[1] # p_sequence[3]
    /\ p_result.err = None
    /\ Len(p_result.keypoints) = 3

\* C20: interpolate_poses raises ValueError for a sequence without frames
\* and for target_frames <= 0, assemble_sprite_sheet raises ValueError for
\* an empty frame list, and neither has read, created or written a file
\* when it does.
C20_InvalidInputBeforeIO ==
    /\ (Interpolated /\ (Len(p_sequence) = 0 \/ p_target <= 0)) =>
          (p_result.err = "ValueError" /\ p_result.io = << >>)
    /\ (fn = "assemble_sprite_sheet" /\ fn_done /\ a_frames = << >>) =>
          (a_result.err = "ValueError" /\ a_result.io = << >>)

C20_Witness ==
    /\ fn = "assemble_sprite_sheet"
    /\ fn_done
    /\ a_frames = << >>
    /\ a_direction = "vertical"
    /\ a_padding = 1
    /\ a_result.err = "ValueError"

\* assemble_sprite_sheet has returned a sheet of n >= 1 readable frames.
Assembled ==
    /\ fn = "assemble_sprite_sheet"
    /\ fn_done
    /\ Len(a_frames) >= 1
    /\ \A k \in DOMAIN a_frames : a_frames[k] = "ok"

\* Along the strip axis: the extent of a frame, the length of the canvas,
\* and the position of a pixel.
StripExtent == IF a_direction = "horizontal" THEN a_frame_size[1] ELSE a_frame_size[2]
StripLength == IF a_direction = "horizontal" THEN a_result.size[1] ELSE a_result.size[2]
Along(px) == IF a_direction = "horizontal" THEN px[1] ELSE px[2]

\* The interval [k*(e+p), k*(e+p)+e) of frame k, counted from 0.
FrameInterval(k) ==
    (k * (StripExtent + a_padding))..(k * (StripExtent + a_padding) + StripExtent - 1)

\* C21: for n >= 1 frames, frame size (fw, fh) and padding p >= 0 the
\* canvas is (fw*n + p*(n-1), fh) horizontally and (fw, fh*n + p*(n-1))
\* vertically; frame k covers exactly [k*(e+p), k*(e+p)+e) along the strip
\* axis, the frames are pairwise disjoint, lie inside the canvas in input
\* order, and every pixel of every gap stays fully transparent.
C21_SheetGeometry ==
    Assembled =>
        LET n == Len(a_frames)
            fw == a_frame_size[1]
            fh == a_frame_size[2]
        IN  /\ a_result.err = None
            /\ a_result.size =
                  IF a_direction = "horizontal"
                  THEN <<fw * n + a_padding * (n - 1), fh>>
                  ELSE <<fw, fh * n + a_padding * (n - 1)>>
            /\ DOMAIN a_result.sheet =
                  (0..(a_result.size[1] - 1)) \X (0..(a_result.size[2] - 1))
            /\ \A k \in 0..(n - 1) :
                  /\ FrameInterval(k) \subseteq 0..(StripLength - 1)
                  /\ \A j \in 0..(k - 1) :
                        /\ FrameInterval(j) \cap FrameInterval(k) = {}
                        /\ \A a \in FrameInterval(j), b \in FrameInterval(k) : a < b
                  /\ \A px \in DOMAIN a_result.sheet :
                        (a_result.sheet[px] = k + 1) <=> (Along(px) \in FrameInterval(k))
            /\ \A px \in DOMAIN a_result.sheet :
                  (\A k \in 0..(n - 1) : Along(px) \notin FrameInterval(k)) =>
                      a_result.sheet[px] = Transparent

C21_Witness ==
    /\ Assembled
    /\ Len(a_frames) = 3
    /\ a_padding = 1
    /\ a_direction = "vertical"
    /\ a_frame_size = <<2, 1>>
    /\ a_result.size = <<2, 5>>
    /\ a_result.sheet[<<1, 3>>] = Transparent
    /\ a_result.sheet[<<1, 4>>] = 3

\* The call met an unreadable frame: the index of the first one.
FailedFrame ==
    IF fn = "assemble_sprite_sheet" /\ fn_done /\ a_frames # << >>
    THEN FirstUnreadable(a_frames) ELSE 0

\* C22: when the frame at index k is missing, zero-length or unreadable,
\* the call raises an assembly error whose message identifies index k and
\* the path of that frame, and no sheet is written: nothing is created at
\* the output path and a file already there is left as it was.
C22_UnreadableFrameReported ==
    FailedFrame # 0 =>
        /\ a_result.err = "AssemblyError"
        /\ {"index", "path"} \subseteq a_result.message
        /\ a_result.output = a_output
        /\ \A i \in DOMAIN a_result.io : a_result.io[i][1] \notin {"mkdir", "save"}

\* The phases of the generation screen's run.
GenPhases == {"phase1", "phase2", "phase4"}

\* C23: when connect of the configured backend raises or is_available
\* reports False, the generation screen's run does not abort: it switches
\* to the mock backend, connects it and runs the phases on it; no pipeline
\* is invoked with a backend that raised on connect or was unavailable.
C23_FallbackToMock ==
    r_caller = "screen" =>
        /\ \A i \in DOMAIN r_invoked :
              /\ r_invoked[i][2] \notin r_failed
              /\ r_invoked[i][2] \in r_opened
        /\ r_pc \in GenPhases =>
              /\ r_available
              /\ r_backend \in r_opened \ r_failed
              /\ <<r_runs, "configured">> \in r_failed =>
                    r_backend = <<r_runs, "fallback">>
        /\ <<r_runs, "configured">> \in r_failed => r_exit # "exception"

C23_Witness ==
    /\ r_caller = "screen"
    /\ r_config = "comfyui"
    /\ <<1, "configured">> \in r_failed \cap r_opened
    /\ r_invoked = <<<<"background", <<1, "fallback">>>>, <<"character", <<1, "fallback">>>>>>
    /\ r_exit = "return"

\* C24: every name is read from disk and validated at most once, and every
\* load of that name returns the same cached sequence object.
C24_LoadedOncePerName ==
    \A n \in PoseFileNames :
        /\ l_reads[n] <= 1
        /\ Cardinality(l_returned[n]) <= 1

\* The messages of one generation, in the order of their creation.
ExpectedMessages == [k \in 1..TotalSteps |-> ProgressMessage(k)] \o <<CompleteMessage>>

IsPrefix(a, b) == Len(a) <= Len(b) /\ a = SubSeq(b, 1, Len(a))

\* C25: a client connected before the generation starts receives the
\* progress messages 1..10 in order (total 10) and then one complete
\* message, nothing after it, and between the callback and the broadcast
\* loop no message is lost, duplicated or reordered.
C25_ProgressThenComplete ==
    /\ [](\A c \in ws_early :
             /\ IsPrefix(ws_received[c], ExpectedMessages)
             /\ IsPrefix(ws_received[c] \o ws_queue, ExpectedMessages)
             /\ Len(ws_received[c] \o ws_queue) =
                   ws_step + (IF ws_pc = "done" THEN 1 ELSE 0))
    /\ \A c \in WsClients :
          (c \in ws_early) ~> (c \notin ws_early \/ ws_received[c] = ExpectedMessages)

C25_Witness ==
    /\ ws_pc = "done"
    /\ "first" \in ws_early
    /\ ws_received["first"] = ExpectedMessages
    /\ "second" \in ws_clients \ ws_early
    /\ Len(ws_received["second"]) = 3

\* No run of the caller is in progress.
RunOver == r_runs > 0 /\ r_pc \in {"idle", "done", "dead", "popped"}

\* C28: every backend instance a caller has connected is disconnected
\* before that caller finishes, on every exit path.
C28_ConnectedBackendsDisconnected ==
    RunOver => r_opened \subseteq r_closed

\* C29: on the generation and export screens a start request while
\* _running is true starts nothing and leaving the screen is refused, and
\* every run that has ended, on whatever path, has set _running to false.
C29_OneRunAndReset ==
    /\ [][(r_caller \in Screens /\ r_running) =>
             (r_runs' = r_runs /\ r_pc' # "popped")]_vars
    /\ []((r_caller \in Screens /\ r_exit # None) => ~r_running)

\* A generate call of the local-service backend that built its job graph.
Workflow(init_image) == build_workflow(last_call.request, init_image)
NodesOf(workflow, class_types) ==
    {k \in DOMAIN workflow : workflow[k].class_type \in class_types}
SamplerInputs(workflow) ==
    UNION {workflow[k].inputs : k \in NodesOf(workflow, {"KSampler"})}
IdentityNodes == {"IPAdapterModelLoader", "IPAdapter", "IPAdapterApply", "IPAdapterAdvanced"}

\* C26: the job graph holds the conditioning the request asks for: pose
\* nodes with the sampler rewired to them when a pose image and model are
\* set, identity nodes feeding the sampler when an identity reference is
\* set, the prompt encoders directly when neither is set; every reference
\* names an existing node and node ids are unique.
C26_WorkflowCarriesConditioning ==
    (last_call.variant = "comfyui" /\ last_call.op = "generate"
     /\ last_call.network # << >>) =>
        \A init_image \in BOOLEAN :
            LET w == Workflow(init_image)
                r == last_call.request
                ids == {w[k].id : k \in DOMAIN w}
                pose == NodesOf(w, {"ControlNetApplyAdvanced"})
                identity == NodesOf(w, IdentityNodes)
            IN  /\ (r.controlnet_image /\ r.controlnet_model) =>
                      /\ NodesOf(w, {"ControlNetLoader"}) # {}
                      /\ \E k \in pose :
                            {<<"positive", w[k].id, 0>>, <<"negative", w[k].id, 1>>}
                                \subseteq SamplerInputs(w)
                      /\ {<<"positive", 2, 0>>, <<"negative", 3, 0>>}
                            \cap SamplerInputs(w) = {}
                /\ r.ip_adapter_image =>
                      \E k \in identity, ref \in SamplerInputs(w) : ref[2] = w[k].id
                /\ (~r.controlnet_image /\ ~r.ip_adapter_image) =>
                      {<<"positive", 2, 0>>, <<"negative", 3, 0>>}
                          \subseteq SamplerInputs(w)
                /\ \A k \in DOMAIN w : \A ref \in w[k].inputs : ref[2] \in ids
                /\ \A j, k \in DOMAIN w : w[j].id = w[k].id => j = k

\* C27: on one local-service backend instance at most one HTTP client is
\* open at a time and no client is dropped unclosed; disconnect on a
\* backend without client changes nothing; generate and get_models reach
\* the network only while a client exists and raise the not-connected
\* error otherwise.
C27_OneClientAtATime ==
    /\ open_clients = (IF client THEN 1 ELSE 0)
    /\ (last_call.variant = "comfyui" /\ last_call.op \in {"generate", "get_models"}) =>
          IF client
          THEN last_call.network # << >>
          ELSE last_call.error = "RuntimeError" /\ last_call.network = << >>
    /\ (last_call.variant = "comfyui" /\ last_call.op = "disconnect") => ~client

\* C30: an image file named in a result returned to a caller is not
\* overwritten by a later generate call on the same backend: calls whose
\* image content differs write to different paths, so the path of every
\* earlier result still holds the content generated for it.
C30_ResultFilesNotOverwritten ==
    \A i \in DOMAIN mock_log :
        /\ mock_disk[mock_log[i].images[1]] = mock_log[i].content
        /\ \A j \in DOMAIN mock_log :
              (mock_log[i].instance = mock_log[j].instance
               /\ mock_log[i].content # mock_log[j].content) =>
                  mock_log[i].images # mock_log[j].images
====
